---- MODULE Spec2Model ----
(***************************************************************************)
(* A model of the DEX route aggregator: the 256-bit math utilities of      *)
(* utils.rs, the quote engine of quote.rs and the router of router.rs.     *)
(*                                                                         *)
(* Integer widths are scaled down so that TLC's integers can hold every    *)
(* intermediate value: a U256 is modelled as a WordBits-bit word, a u128   *)
(* as a word of half that width and a u32 as a U32Bits-bit word.  The      *)
(* program constants (10000 basis points, 100000 gas per swap, the         *)
(* strategy weights) keep their values.                                    *)
(***************************************************************************)
EXTENDS Integers, Sequences, FiniteSets, TLC

\* ------------------------------------------------------------------ bounds
WordBits == 29
U32Bits == 14
MaxAmount == 4
MaxReserve == 3
MaxDecimals == 3

UMax == 2^WordBits - 1
U128Max == 2^(WordBits \div 2) - 1
U32Max == 2^U32Bits - 1

\* ------------------------------------------------------- program constants
FeeBase == 10000
ImpactMax == 10000

\* ----------------------------------------------------------------- results
Ok(v) == [tag |-> "Ok", val |-> v]
Err(e) == [tag |-> e, val |-> 0]
IsOk(r) == r.tag = "Ok"
NoCall == [tag |-> "NoCall", val |-> 0]

\* ------------------------------------------------- checked word arithmetic
\* U256::checked_mul: None (modelled as -1) when the product leaves the word.
checked_mul(a, b) ==
  IF a = 0 \/ b = 0 THEN 0
  ELSE IF a > UMax \div b THEN -1
  ELSE a * b

\* U256::checked_add
checked_add(a, b) == IF a > UMax - b THEN -1 ELSE a + b

\* U256::checked_div: None on a zero divisor
checked_div(a, b) == IF b = 0 THEN -1 ELSE a \div b

\* U256::saturating_sub
saturating_sub(a, b) == IF a > b THEN a - b ELSE 0

\* U256::as_u32 panics (modelled as -1) when the value does not fit
as_u32(v) == IF v > U32Max THEN -1 ELSE v

Min(a, b) == IF a < b THEN a ELSE b

\* a value computed once and then used: F(v) with v evaluated before F
With(v, F(_)) == CHOOSE r \in {F(x) : x \in {v}} : TRUE

\* ------------------------------------------------ constant product formula
\* Variants of the formula used to probe the properties below: the fee factor,
\* the sign of the denominator's second term, the rounding and the final zero
\* check are parameters.
v2_variant(amount_in, reserve_in, reserve_out, fee_factor, plus, round_up, zero_check) ==
  IF amount_in = 0 THEN Err("InvalidAmount")
  ELSE IF reserve_in = 0 \/ reserve_out = 0 THEN Err("InsufficientLiquidity")
  ELSE
    LET amount_in_with_fee == checked_mul(amount_in, fee_factor)
        numerator == IF amount_in_with_fee = -1 THEN -1
                     ELSE checked_mul(amount_in_with_fee, reserve_out)
        d1 == checked_mul(reserve_in, FeeBase)
        denominator == IF d1 = -1 \/ amount_in_with_fee = -1 THEN -1
                       ELSE IF plus THEN checked_add(d1, amount_in_with_fee)
                       ELSE IF d1 > amount_in_with_fee THEN d1 - amount_in_with_fee
                       ELSE -1
    IN IF numerator = -1 \/ denominator = -1 THEN Err("MathError")
       ELSE LET q == (numerator \div denominator) + (IF round_up THEN 1 ELSE 0)
            IN IF zero_check /\ q = 0 THEN Err("InsufficientLiquidity") ELSE Ok(q)

v2_no_zero_output_check(amount_in, reserve_in, reserve_out, fee_bps) ==
  v2_variant(amount_in, reserve_in, reserve_out, FeeBase - fee_bps, TRUE, FALSE, FALSE)

v2_round_up(amount_in, reserve_in, reserve_out, fee_bps) ==
  v2_variant(amount_in, reserve_in, reserve_out, FeeBase - fee_bps, TRUE, TRUE, TRUE)

v2_denominator_minus(amount_in, reserve_in, reserve_out, fee_bps) ==
  v2_variant(amount_in, reserve_in, reserve_out, FeeBase - fee_bps, FALSE, FALSE, TRUE)

v2_fee_sign(amount_in, reserve_in, reserve_out, fee_bps) ==
  v2_variant(amount_in, reserve_in, reserve_out, FeeBase + fee_bps, TRUE, FALSE, TRUE)

calculate_uniswap_v2_output(amount_in, reserve_in, reserve_out, fee_bps) ==
  IF amount_in = 0 THEN Err("InvalidAmount")
  ELSE IF reserve_in = 0 \/ reserve_out = 0 THEN Err("InsufficientLiquidity")
  ELSE
    LET fee_factor == FeeBase - fee_bps
        amount_in_with_fee == checked_mul(amount_in, fee_factor)
    IN IF amount_in_with_fee = -1 THEN Err("MathError")
       ELSE
         LET numerator == checked_mul(amount_in_with_fee, reserve_out)
         IN IF numerator = -1 THEN Err("MathError")
            ELSE
              LET d1 == checked_mul(reserve_in, FeeBase)
              IN IF d1 = -1 THEN Err("MathError")
                 ELSE
                   LET denominator == checked_add(d1, amount_in_with_fee)
                   IN IF denominator = -1 THEN Err("MathError")
                      ELSE
                        LET amount_out == checked_div(numerator, denominator)
                        IN IF amount_out = -1 THEN Err("MathError")
                           ELSE IF amount_out = 0
                                  THEN Err("InsufficientLiquidity")
                                  ELSE Ok(amount_out)

\* ------------------------------------------------------------ price impact
price_impact_no_saturation(amount_in, reserve_in, amount_out, reserve_out) ==
  IF reserve_in = 0 \/ reserve_out = 0 THEN ImpactMax
  ELSE
    LET val == checked_mul(amount_in, reserve_out)
        val2 == checked_mul(amount_out, reserve_in)
    IN IF val = -1 \/ val2 = -1 THEN ImpactMax
       ELSE IF val = 0 THEN ImpactMax
       ELSE
         LET numerator == IF val2 > val THEN val2 - val ELSE val - val2
             scaled == checked_mul(numerator, ImpactMax)
             impact == IF scaled = -1 THEN ImpactMax ELSE scaled \div val
         IN IF as_u32(impact) = -1 THEN -1 ELSE Min(as_u32(impact), ImpactMax)

calculate_price_impact(amount_in, reserve_in, amount_out, reserve_out) ==
  IF reserve_in = 0 \/ reserve_out = 0 THEN ImpactMax
  ELSE
    LET val == checked_mul(amount_in, reserve_out)
        val2 == checked_mul(amount_out, reserve_in)
    IN IF val = -1 \/ val2 = -1 THEN ImpactMax
       ELSE
         LET numerator == saturating_sub(val, val2)
             denominator == val
         IN IF denominator = 0 THEN ImpactMax
            ELSE
              LET scaled == checked_mul(numerator, ImpactMax)
                  impact == IF scaled = -1 THEN ImpactMax
                            ELSE checked_div(scaled, denominator)
              IN IF as_u32(impact) = -1 THEN -1
                 ELSE Min(as_u32(impact), ImpactMax)

\* ---------------------------------------------------------------- fee
calculate_fee(amount, fee_bps) ==
  LET m == checked_mul(amount, fee_bps)
  IN IF m = -1 THEN 0 ELSE m \div FeeBase

\* ------------------------------------------------- amount parsing, formatting
\* Strings are sequences of one-character strings.
DigitChars == <<"0", "1", "2", "3", "4", "5", "6", "7", "8", "9">>

Pow10(d) == 10^d

\* Display of an unsigned integer: its decimal digits, "0" for zero.
RECURSIVE ToDigits(_)
ToDigits(n) ==
  IF n < 10 THEN <<DigitChars[n + 1]>>
  ELSE ToDigits(n \div 10) \o <<DigitChars[(n % 10) + 1]>>

DigitValue(c) == CHOOSE i \in 0..9 : DigitChars[i + 1] = c
IsDigit(c) == \E i \in 0..9 : DigitChars[i + 1] = c

\* str::parse::<u128>: -1 on an empty string, a character that is no digit,
\* or a value above the u128 range.
RECURSIVE ParseAcc(_, _)
ParseAcc(str, acc) ==
  IF str = <<>> THEN acc
  ELSE IF ~IsDigit(Head(str)) THEN -1
  ELSE LET next == acc * 10 + DigitValue(Head(str))
       IN IF next > U128Max THEN -1 ELSE ParseAcc(Tail(str), next)

parse_u128(str) == IF str = <<>> THEN -1 ELSE ParseAcc(str, 0)

\* {:0>width$}: left-pad with zeros
RECURSIVE PadLeft(_, _)
PadLeft(str, width) ==
  IF Len(str) >= width THEN str ELSE PadLeft(<<"0">> \o str, width)

\* {:0<width$}: right-pad with zeros
RECURSIVE PadRight(_, _)
PadRight(str, width) ==
  IF Len(str) >= width THEN str ELSE PadRight(str \o <<"0">>, width)

\* trim_end_matches('0')
RECURSIVE TrimEndZeros(_)
TrimEndZeros(str) ==
  IF str # <<>> /\ str[Len(str)] = "0"
    THEN TrimEndZeros(SubSeq(str, 1, Len(str) - 1))
    ELSE str

\* str::split('.'): the sequence of parts
RECURSIVE SplitDot(_, _, _)
SplitDot(str, cur, parts) ==
  IF str = <<>> THEN Append(parts, cur)
  ELSE IF Head(str) = "." THEN SplitDot(Tail(str), <<>>, Append(parts, cur))
  ELSE SplitDot(Tail(str), Append(cur, Head(str)), parts)

format_keeps_trailing_zeros(amount, decimals) ==
  IF amount = 0 THEN <<"0">>
  ELSE
    LET divisor == Pow10(decimals)
        integer_part == amount \div divisor
        remainder == amount % divisor
    IN IF remainder = 0 THEN ToDigits(integer_part)
       ELSE ToDigits(integer_part) \o <<".">> \o ToDigits(remainder)

format_token_amount(amount, decimals) ==
  IF amount = 0 THEN <<"0">>
  ELSE
    LET divisor == Pow10(decimals)
        integer_part == amount \div divisor
        remainder == amount % divisor
    IN IF remainder = 0 THEN ToDigits(integer_part)
       ELSE
         LET decimal_str == PadLeft(ToDigits(remainder), decimals)
             trimmed == TrimEndZeros(decimal_str)
         IN IF trimmed = <<>> THEN ToDigits(integer_part)
            ELSE ToDigits(integer_part) \o <<".">> \o trimmed

\* u128 checked_mul / checked_add
checked_mul_u128(a, b) == IF a * b > U128Max THEN -1 ELSE a * b
checked_add_u128(a, b) == IF a + b > U128Max THEN -1 ELSE a + b

parse_token_amount(amount_str, decimals) ==
  LET parts == SplitDot(amount_str, <<>>, <<>>)
  IN IF Len(parts) = 0 \/ Len(parts) > 2 THEN Err("ParseError")
     ELSE
       LET integer_part == parse_u128(parts[1])
       IN IF integer_part = -1 THEN Err("ParseError")
          ELSE IF Len(parts) = 2 /\ Len(parts[2]) > decimals THEN Err("ParseError")
          ELSE
            LET decimal_part == IF Len(parts) = 2
                                  THEN parse_u128(PadRight(parts[2], decimals))
                                  ELSE 0
            IN IF decimal_part = -1 THEN Err("ParseError")
               ELSE
                 LET multiplier == Pow10(decimals)
                     m == checked_mul_u128(integer_part, multiplier)
                     total == IF m = -1 THEN -1 ELSE checked_add_u128(m, decimal_part)
                 IN IF total = -1 THEN Err("MathError") ELSE Ok(total)

\* ============================================================ quote engine
\* A pool descriptor is [address, token0, token1, reserve0, reserve1, fee_bps].
GasPerSwap == 100000
None == [some |-> FALSE]
Some(v) == [some |-> TRUE, v |-> v]

get_other_token(pool, token) ==
  IF token = pool.token0 THEN Some(pool.token1)
  ELSE IF token = pool.token1 THEN Some(pool.token0)
  ELSE None

get_reserves(pool, token_in) ==
  IF token_in = pool.token0 THEN Some(<<pool.reserve0, pool.reserve1>>)
  ELSE IF token_in = pool.token1 THEN Some(<<pool.reserve1, pool.reserve0>>)
  ELSE None

calculate_pool_output(pool, token_in, amount_in) ==
  LET reserves == get_reserves(pool, token_in)
      other == get_other_token(pool, token_in)
  IN IF ~reserves.some THEN Err("InvalidTokenAddress")
     ELSE IF ~other.some THEN Err("InvalidTokenAddress")
     ELSE
       LET reserve_in == reserves.v[1]
           reserve_out == reserves.v[2]
           amount_out == calculate_uniswap_v2_output(amount_in, reserve_in,
                                                     reserve_out, pool.fee_bps)
       IN IF ~IsOk(amount_out) THEN amount_out
          ELSE Ok([pool |-> pool,
                   token_in |-> token_in,
                   token_out |-> other.v,
                   amount_in |-> amount_in,
                   amount_out |-> amount_out.val,
                   fee |-> calculate_fee(amount_in, pool.fee_bps),
                   price_impact_bps |->
                     calculate_price_impact(amount_in, reserve_in,
                                            amount_out.val, reserve_out),
                   gas_estimate |-> GasPerSwap])

\* the loop of calculate_route_output, from hop i on
RECURSIVE RouteHops(_, _, _, _, _)
RouteHops(pools, tokens, i, current_amount, hops) ==
  IF i > Len(pools) THEN Ok(hops)
  ELSE
    LET pool == pools[i]
        token_in == tokens[i]
        token_out == tokens[i + 1]
        Rest(quote) ==
          IF ~IsOk(quote) THEN quote
          ELSE RouteHops(pools, tokens, i + 1, quote.val.amount_out,
                         Append(hops, [pool |-> pool.address,
                                       token_in |-> token_in,
                                       token_out |-> token_out,
                                       amount_in |-> current_amount,
                                       amount_out |-> quote.val.amount_out,
                                       fee |-> quote.val.fee,
                                       gas_estimate |-> quote.val.gas_estimate]))
    IN With(calculate_pool_output(pool, token_in, current_amount), Rest)

calculate_route_output(pools, tokens, amount_in) ==
  IF pools = <<>> \/ Len(tokens) # Len(pools) + 1 THEN Err("InvalidAmount")
  ELSE With(<<pools, tokens, amount_in>>,
            LAMBDA args : RouteHops(args[1], args[2], 1, args[3], <<>>))

\* the filter of find_best_direct_pool
RECURSIVE MatchingPools(_, _, _)
MatchingPools(pools, token_in, token_out) ==
  IF pools = <<>> THEN <<>>
  ELSE LET p == Head(pools)
           rest == MatchingPools(Tail(pools), token_in, token_out)
       IN IF \/ (p.token0 = token_in /\ p.token1 = token_out)
             \/ (p.token0 = token_out /\ p.token1 = token_in)
            THEN <<p>> \o rest
            ELSE rest

\* a variant of the loop that replaces the best quote on an equal amount_out
RECURSIVE best_quote_last_wins(_, _, _, _, _)
best_quote_last_wins(matching, i, token_in, amount_in, best_quote) ==
  IF i > Len(matching) THEN best_quote
  ELSE
    LET quote == calculate_pool_output(matching[i], token_in, amount_in)
        next == IF ~IsOk(quote) THEN best_quote
                ELSE IF best_quote.some
                  THEN (IF quote.val.amount_out >= best_quote.v.amount_out
                          THEN Some(quote.val) ELSE best_quote)
                  ELSE Some(quote.val)
    IN best_quote_last_wins(matching, i + 1, token_in, amount_in, next)

\* the loop of find_best_direct_pool: best_quote after the pools from i on
RECURSIVE BestQuote(_, _, _, _, _)
BestQuote(matching, i, token_in, amount_in, best_quote) ==
  IF i > Len(matching) THEN best_quote
  ELSE
    LET quote == calculate_pool_output(matching[i], token_in, amount_in)
        next == IF ~IsOk(quote) THEN best_quote
                ELSE IF best_quote.some
                  THEN (IF quote.val.amount_out > best_quote.v.amount_out
                          THEN Some(quote.val) ELSE best_quote)
                  ELSE Some(quote.val)
    IN BestQuote(matching, i + 1, token_in, amount_in, next)

find_best_direct_pool(pools, token_in, token_out, amount_in) ==
  LET matching_pools == MatchingPools(pools, token_in, token_out)
  IN IF matching_pools = <<>> THEN Err("NoRouteFound")
     ELSE LET best_quote == BestQuote(matching_pools, 1, token_in, amount_in, None)
          IN IF best_quote.some THEN Ok(best_quote.v) ELSE Err("NoRouteFound")


\* ================================================================== router
NumTokens == 3
MaxPools == 2
Tokens == 1..NumTokens
MaxHopsCap == 4
Strategies == {"Price", "Gas", "Slippage", "Balanced"}

\* Router::new
Router_new(optimization, max_hops) ==
  [optimization |-> optimization, max_hops |-> Min(max_hops, MaxHopsCap)]

\* OptimizationStrategy::get_weights, in tenths
get_weights(optimization) ==
  CASE optimization = "Price" -> <<10, 1, 1>>
    [] optimization = "Gas" -> <<3, 10, 1>>
    [] optimization = "Slippage" -> <<3, 1, 10>>
    [] optimization = "Balanced" -> <<5, 3, 2>>

Contains(seq, x) == \E i \in 1..Len(seq) : seq[i] = x

\* a variant that also lists the pools with an empty reserve
RECURSIVE connections_with_empty_pools(_, _)
connections_with_empty_pools(pools, token) ==
  IF pools = <<>> THEN <<>>
  ELSE
    LET pool == Head(pools)
        here ==
          (IF pool.token0 = token
             THEN << <<pool.address, pool.token1>> >> ELSE <<>>)
          \o (IF pool.token1 = token
                THEN << <<pool.address, pool.token0>> >> ELSE <<>>)
    IN here \o connections_with_empty_pools(Tail(pools), token)

\* the entries build_adjacency_map pushes under `token`, in pool order
RECURSIVE Connections(_, _)
Connections(pools, token) ==
  IF pools = <<>> THEN <<>>
  ELSE
    LET pool == Head(pools)
        here ==
          IF pool.reserve0 = 0 \/ pool.reserve1 = 0 THEN <<>>
          ELSE (IF pool.token0 = token
                  THEN << <<pool.address, pool.token1>> >> ELSE <<>>)
               \o (IF pool.token1 = token
                     THEN << <<pool.address, pool.token0>> >> ELSE <<>>)
    IN here \o Connections(Tail(pools), token)

build_adjacency_map(pools) == [t \in Tokens |-> Connections(pools, t)]

\* the direct routes of find_all_routes
RECURSIVE DirectRoutes(_, _, _)
DirectRoutes(connections, token_in, token_out) ==
  IF connections = <<>> THEN <<>>
  ELSE LET c == Head(connections)
           rest == DirectRoutes(Tail(connections), token_in, token_out)
       IN IF c[2] = token_out
            THEN <<[tokens |-> <<token_in, token_out>>, pools |-> <<c[1]>>]>> \o rest
            ELSE rest

\* a variant of the loop without the test for a token already on the path
RECURSIVE extend_revisits(_, _, _, _, _, _)
extend_revisits(connections, i, path_tokens, path_pools, end, acc) ==
  IF i > Len(connections) THEN acc
  ELSE
    LET pool_addr == connections[i][1]
        next_token == connections[i][2]
        new_path_tokens == Append(path_tokens, next_token)
        new_path_pools == Append(path_pools, pool_addr)
    IN IF next_token = end
         THEN extend_revisits(connections, i + 1, path_tokens, path_pools, end,
                     [acc EXCEPT !.routes =
                        Append(@, [tokens |-> new_path_tokens,
                                   pools |-> new_path_pools])])
       ELSE extend_revisits(connections, i + 1, path_tokens, path_pools, end,
                   [acc EXCEPT !.queue =
                      Append(@, [current |-> next_token,
                                 path_tokens |-> new_path_tokens,
                                 path_pools |-> new_path_pools])])

\* the for loop of bfs_routes over the connections of the popped token
RECURSIVE Extend(_, _, _, _, _, _)
Extend(connections, i, path_tokens, path_pools, end, acc) ==
  IF i > Len(connections) THEN acc
  ELSE
    LET pool_addr == connections[i][1]
        next_token == connections[i][2]
        new_path_tokens == Append(path_tokens, next_token)
        new_path_pools == Append(path_pools, pool_addr)
    IN IF Contains(path_tokens, next_token)
         THEN Extend(connections, i + 1, path_tokens, path_pools, end, acc)
       ELSE IF next_token = end
         THEN Extend(connections, i + 1, path_tokens, path_pools, end,
                     [acc EXCEPT !.routes =
                        Append(@, [tokens |-> new_path_tokens,
                                   pools |-> new_path_pools])])
       ELSE Extend(connections, i + 1, path_tokens, path_pools, end,
                   [acc EXCEPT !.queue =
                      Append(@, [current |-> next_token,
                                 path_tokens |-> new_path_tokens,
                                 path_pools |-> new_path_pools])])

\* the while loop of bfs_routes
RECURSIVE BfsLoop(_, _, _, _, _)
BfsLoop(adjacency, end, max_depth, queue, routes) ==
  IF queue = <<>> THEN routes
  ELSE
    LET item == Head(queue)
    IN IF Len(item.path_pools) >= max_depth
         THEN BfsLoop(adjacency, end, max_depth, Tail(queue), routes)
         ELSE
           With(Extend(adjacency[item.current], 1, item.path_tokens,
                       item.path_pools, end,
                       [queue |-> Tail(queue), routes |-> routes]),
                LAMBDA acc : BfsLoop(adjacency, end, max_depth,
                                     acc.queue, acc.routes))

\* a variant of one pass that puts an item at the depth limit back on the queue
bfs_step_requeue(adjacency, end, max_depth, queue, routes) ==
  LET item == Head(queue)
  IN IF Len(item.path_pools) >= max_depth
       THEN [queue |-> Append(Tail(queue), item), routes |-> routes]
       ELSE Extend(adjacency[item.current], 1, item.path_tokens,
                   item.path_pools, end,
                   [queue |-> Tail(queue), routes |-> routes])

\* one pass of the while loop of bfs_routes, over a queue that is not empty:
\* the queue and the routes after it
BfsStep(adjacency, end, max_depth, queue, routes) ==
  LET item == Head(queue)
  IN IF Len(item.path_pools) >= max_depth
       THEN [queue |-> Tail(queue), routes |-> routes]
       ELSE Extend(adjacency[item.current], 1, item.path_tokens,
                   item.path_pools, end,
                   [queue |-> Tail(queue), routes |-> routes])

bfs_routes(adjacency, start, end, max_depth) ==
  BfsLoop(adjacency, end, max_depth,
          <<[current |-> start, path_tokens |-> <<start>>, path_pools |-> <<>>]>>,
          <<>>)

\* a variant that keeps every route
keep_duplicates(routes, seen, unique_routes) == routes

\* deduplicate_routes: the first route of every pool sequence
RECURSIVE Dedup(_, _, _)
Dedup(routes, seen, unique_routes) ==
  IF routes = <<>> THEN unique_routes
  ELSE LET route == Head(routes)
       IN IF route.pools \in seen
            THEN Dedup(Tail(routes), seen, unique_routes)
            ELSE Dedup(Tail(routes), seen \cup {route.pools},
                       Append(unique_routes, route))

deduplicate_routes(routes) == Dedup(routes, {}, <<>>)

find_all_routes(router, pools, token_in, token_out) ==
  LET adjacency == build_adjacency_map(pools)
      direct == DirectRoutes(adjacency[token_in], token_in, token_out)
      multi == IF router.max_hops > 1
                 THEN bfs_routes(adjacency, token_in, token_out, router.max_hops)
                 ELSE <<>>
  IN deduplicate_routes(direct \o multi)

\* pools.iter().find(|p| p.address == addr): the first pool with the address
RECURSIVE FindPool(_, _)
FindPool(pools, addr) ==
  IF pools = <<>> THEN None
  ELSE IF Head(pools).address = addr THEN Some(Head(pools))
  ELSE FindPool(Tail(pools), addr)

\* the filter_map of calculate_route_quote
RECURSIVE RoutePools(_, _)
RoutePools(addrs, pools) ==
  IF addrs = <<>> THEN <<>>
  ELSE LET found == FindPool(pools, Head(addrs))
       IN (IF found.some THEN <<found.v>> ELSE <<>>)
          \o RoutePools(Tail(addrs), pools)

\* a variant of the fold that stops after the first hop
sum_first_hop_only(hops, field, acc) ==
  IF hops = <<>> THEN acc ELSE checked_add(acc, Head(hops)[field])

\* the fold of U256 `+`, which panics (-1) when the sum leaves the word
RECURSIVE SumField(_, _, _)
SumField(hops, field, acc) ==
  IF acc = -1 \/ hops = <<>> THEN acc
  ELSE SumField(Tail(hops), field, checked_add(acc, Head(hops)[field]))

\* U256::as_u128 panics (-1) when the value does not fit
as_u128(v) == IF v > U128Max THEN -1 ELSE v

\* a variant that charges every route the impact of one hop
flat_route_impact(hops) == 10

estimate_route_price_impact(hops) == Len(hops) * 10

\* calculate_score, times 100.  The gas term gas_cost_usd * 1000 is
\* gas * gas_price_gwei * eth_price_usd / 10^6; gas is a multiple of 100000
\* here, so the term times 10 is (gas / 100000) * gas_price_gwei * eth_price_usd.
\* The conversion of the gas cost to u128 cannot fail: gas <= 4 * 10^5,
\* gas_price_gwei < 2^64 and 10^9 < 2^30, so the cost in wei is below 2^128.
\* A panic of as_u128 on amount_out is [panic |-> TRUE].
calculate_score(router, amount_out, gas_estimate, price_impact_bps, context) ==
  LET w == get_weights(router.optimization)
      output_score == as_u128(amount_out)
      gas_score10 == -((gas_estimate \div GasPerSwap) * context.gas_price_gwei
                       * context.eth_price_usd)
      slippage_score == -price_impact_bps
  IN IF output_score = -1 THEN [panic |-> TRUE, score |-> 0]
     ELSE [panic |-> FALSE,
           score |-> 10 * w[1] * output_score + w[2] * gas_score10
                     + 10 * w[3] * slippage_score]

calculate_route_quote(router, route, pools, amount_in, context) ==
  LET Quoted(hops) ==
        IF ~IsOk(hops) THEN hops
          ELSE
            LET amount_out == hops.val[Len(hops.val)].amount_out
                total_fee == SumField(hops.val, "fee", 0)
                gas_estimate == SumField(hops.val, "gas_estimate", 0)
                price_impact_bps == estimate_route_price_impact(hops.val)
                score == calculate_score(router, amount_out, gas_estimate,
                                         price_impact_bps, context)
            IN IF total_fee = -1 \/ gas_estimate = -1 \/ score.panic
                 THEN Err("Panic")
                 ELSE Ok([token_in |-> route.tokens[1],
                          token_out |-> route.tokens[Len(route.tokens)],
                          amount_in |-> amount_in,
                          amount_out |-> amount_out,
                          hops |-> hops.val,
                          total_fee |-> total_fee,
                          gas_estimate |-> gas_estimate,
                          price_impact_bps |-> price_impact_bps,
                          score |-> score.score])
      Found(route_pools) ==
        IF Len(route_pools) # Len(route.pools) THEN Err("PoolNotFound")
        ELSE With(calculate_route_output(route_pools, route.tokens, amount_in),
                  Quoted)
  IN With(RoutePools(route.pools, pools), Found)

\* a variant of the quoting loop that gives up at the first failing route
RECURSIVE quote_routes_stop_on_error(_, _, _, _, _, _)
quote_routes_stop_on_error(router, routes, pools, amount_in, context, route_quotes) ==
  IF routes = <<>> THEN Ok(route_quotes)
  ELSE
    LET Rest(quote) ==
          IF ~IsOk(quote) THEN quote
          ELSE quote_routes_stop_on_error(router, Tail(routes), pools,
                                          amount_in, context,
                                          Append(route_quotes, quote.val))
    IN With(calculate_route_quote(router, Head(routes), pools, amount_in,
                                  context), Rest)

\* the quoting loop of find_best_route: the quotes pushed, or a panic
RECURSIVE QuoteRoutes(_, _, _, _, _, _)
QuoteRoutes(router, routes, pools, amount_in, context, route_quotes) ==
  IF routes = <<>> THEN Ok(route_quotes)
  ELSE
    LET Rest(quote) ==
          IF quote.tag = "Panic" THEN quote
          ELSE QuoteRoutes(router, Tail(routes), pools, amount_in, context,
                           IF IsOk(quote) THEN Append(route_quotes, quote.val)
                           ELSE route_quotes)
    IN With(calculate_route_quote(router, Head(routes), pools, amount_in,
                                  context), Rest)

\* a variant of the insertion that sorts by ascending score
RECURSIVE insert_ascending(_, _)
insert_ascending(sorted, q) ==
  IF sorted = <<>> THEN <<q>>
  ELSE IF q.score < Head(sorted).score THEN <<q>> \o sorted
  ELSE <<Head(sorted)>> \o insert_ascending(Tail(sorted), q)

\* sort_by(|a, b| b.score.partial_cmp(&a.score)): a stable sort, descending
RECURSIVE InsertByScore(_, _)
InsertByScore(sorted, q) ==
  IF sorted = <<>> THEN <<q>>
  ELSE IF q.score > Head(sorted).score THEN <<q>> \o sorted
  ELSE <<Head(sorted)>> \o InsertByScore(Tail(sorted), q)

RECURSIVE SortByScore(_, _)
SortByScore(quotes, sorted) ==
  IF quotes = <<>> THEN sorted
  ELSE SortByScore(Tail(quotes), InsertByScore(sorted, Head(quotes)))

find_best_route(router, pools, token_in, token_out, amount_in, context) ==
  LET Sorted(route_quotes) ==
        IF ~IsOk(route_quotes) THEN route_quotes
        ELSE IF route_quotes.val = <<>> THEN Err("NoRouteFound")
        ELSE Ok(Head(SortByScore(route_quotes.val, <<>>)))
      Quoted(routes) ==
        IF routes = <<>> THEN Err("NoRouteFound")
        ELSE With(QuoteRoutes(router, routes, pools, amount_in, context, <<>>),
                  Sorted)
  IN With(find_all_routes(router, pools, token_in, token_out), Quoted)


\* Router::find_top_routes, which Aggregator::get_top_quotes calls: the routes
\* enumerated, quoted and sorted as in find_best_route, cut to the first
\* `limit` quotes
Take(seq, k) == SubSeq(seq, 1, Min(k, Len(seq)))

find_top_routes(router, pools, token_in, token_out, amount_in, context, limit) ==
  LET Sorted(route_quotes) ==
        IF ~IsOk(route_quotes) THEN route_quotes
        ELSE IF route_quotes.val = <<>> THEN Err("NoRouteFound")
        ELSE Ok(Take(SortByScore(route_quotes.val, <<>>), limit))
      Quoted(routes) ==
        IF routes = <<>> THEN Err("NoRouteFound")
        ELSE With(QuoteRoutes(router, routes, pools, amount_in, context, <<>>),
                  Sorted)
  IN With(find_all_routes(router, pools, token_in, token_out), Quoted)

\* ========================================================= aggregator facade
\* Config::default: the fields the queries read
Config_default == [max_hops |-> 3, gas_price_gwei |-> 30]

\* PoolManager::get_all_pools: the descriptors in the order the map iterates.
\* The map promises no order; the model lets it iterate its keys upwards or
\* downwards.
RECURSIVE Ascending(_)
Ascending(keys) ==
  IF keys = {} THEN <<>>
  ELSE LET m == CHOOSE x \in keys : \A y \in keys : x <= y
       IN <<m>> \o Ascending(keys \ {m})
Reverse(seq) == [i \in 1..Len(seq) |-> seq[Len(seq) + 1 - i]]
Orders(keys) == {Ascending(keys), Reverse(Ascending(keys))}
get_all_pools(cache, order) == [i \in 1..Len(order) |-> cache[order[i]]]

\* a variant that hands an empty pool list to the router
get_top_quotes_unchecked(config, pools, token_in, token_out, amount_in, optimization, limit) ==
  find_top_routes(Router_new(optimization, config.max_hops), pools,
                  token_in, token_out, amount_in,
                  [gas_price_gwei |-> config.gas_price_gwei,
                   eth_price_usd |-> 1800],
                  limit)

\* Aggregator::get_top_quotes on the pools get_all_pools returned
get_top_quotes(config, pools, token_in, token_out, amount_in, optimization, limit) ==
  IF pools = <<>> THEN Err("PoolNotFound")
  ELSE find_top_routes(Router_new(optimization, config.max_hops), pools,
                       token_in, token_out, amount_in,
                       [gas_price_gwei |-> config.gas_price_gwei,
                        eth_price_usd |-> 1800],
                       limit)

\* Aggregator::get_best_quote: the first of the top quotes; unwrap panics on
\* an empty list
get_best_quote(config, pools, token_in, token_out, amount_in, optimization) ==
  LET Best(quotes) ==
        IF ~IsOk(quotes) THEN quotes
        ELSE IF quotes.val = <<>> THEN Err("Panic")
        ELSE Ok(Head(quotes.val))
  IN With(get_top_quotes(config, pools, token_in, token_out, amount_in,
                         optimization, 1),
          Best)

\* =============================================================== pool cache
\* U256::as_usize on a 64-bit target, scaled as the u128 is: -1 stands for its
\* panic
UsizeMax == 2^(WordBits \div 4) - 1
as_usize(v) == IF v > UsizeMax THEN -1 ELSE v

\* the fee of a fetched pool
PoolFee == 30

\* a variant that keeps the descriptor already stored under the address
insert_if_absent(map, pool) ==
  IF pool.address \in DOMAIN map THEN map
  ELSE [a \in DOMAIN map \cup {pool.address} |->
          IF a = pool.address THEN pool ELSE map[a]]

\* DashMap::insert(pool.address, pool)
insert(map, pool) ==
  [a \in DOMAIN map \cup {pool.address} |->
     IF a = pool.address THEN pool ELSE map[a]]

\* PoolManager::fetch_pool_info. `answers` holds what the node answers to the
\* four queries, in the order the code makes them.
fetch_pool_info(answers, pair_address, dex_name) ==
  IF ~IsOk(answers.token0) THEN Err("ContractError")
  ELSE IF ~IsOk(answers.token1) THEN Err("ContractError")
  ELSE IF ~IsOk(answers.reserves) THEN Err("ContractError")
  ELSE IF ~IsOk(answers.block_number) THEN Err("RpcError")
  ELSE Ok([address |-> pair_address,
           token0 |-> answers.token0.val,
           token1 |-> answers.token1.val,
           reserve0 |-> answers.reserves.val[1],
           reserve1 |-> answers.reserves.val[2],
           fee_bps |-> PoolFee,
           dex_name |-> dex_name,
           last_updated |-> answers.block_number.val])

\* PoolManager::fetch_pool_at_index. chain.at[index + 1] holds the answers of
\* the node for the pair at `index`; the factory reverts beyond them.
fetch_pool_at_index(chain, index, dex_name) ==
  IF index + 1 > Len(chain.at) THEN Err("ContractError")
  ELSE IF ~IsOk(chain.at[index + 1].all_pairs) THEN Err("ContractError")
  ELSE fetch_pool_info(chain.at[index + 1], chain.at[index + 1].all_pairs.val,
                       dex_name)

\* the loop of fetch_pools from index i on: the cache, the list `pools` and the
\* indices handed to fetch_pool_at_index so far
RECURSIVE FetchLoop(_, _, _, _, _)
FetchLoop(chain, dex_name, i, fetch_limit, acc) ==
  IF i >= fetch_limit THEN acc
  ELSE LET fetched == fetch_pool_at_index(chain, i, dex_name)
           attempted == Append(acc.attempted, i)
       IN FetchLoop(chain, dex_name, i + 1, fetch_limit,
                    IF IsOk(fetched)
                    THEN [cache |-> insert(acc.cache, fetched.val),
                          pools |-> Append(acc.pools, fetched.val),
                          attempted |-> attempted]
                    ELSE [acc EXCEPT !.attempted = attempted])

\* PoolManager::fetch_pools: the cache after the call, the indices attempted and
\* the value returned
fetch_pools(cache, chain, dex_name, limit) ==
  LET none == [cache |-> cache, pools |-> <<>>, attempted |-> <<>>]
  IN IF ~IsOk(chain.pair_count)
     THEN [cache |-> cache, attempted |-> <<>>, ret |-> Err("ContractError")]
     ELSE IF as_usize(chain.pair_count.val) = -1
     THEN [cache |-> cache, attempted |-> <<>>, ret |-> Err("Panic")]
     ELSE LET pair_count == as_usize(chain.pair_count.val)
              fetch_limit ==
                Min(IF limit.some THEN limit.v ELSE pair_count, pair_count)
              done == FetchLoop(chain, dex_name, 0, fetch_limit, none)
          IN [cache |-> done.cache, attempted |-> done.attempted,
              ret |-> Ok(done.pools)]

\* the snapshot document. serde writes an address as a fixed number of
\* hexadecimal digits (AddressDigits, for the small addresses here) and a U256 as its hexadecimal digits without leading
\* zeros, the most significant first; the u32 and u64 fields and the label are
\* written as they are.
AddressDigits == 2
RECURSIVE FixedHex(_, _)
FixedHex(x, n) ==
  IF n = 0 THEN <<>> ELSE Append(FixedHex(x \div 16, n - 1), x % 16)
RECURSIVE Hex(_)
Hex(x) == IF x < 16 THEN <<x>> ELSE Append(Hex(x \div 16), x % 16)
RECURSIVE FromHex(_)
FromHex(digits) ==
  IF digits = <<>> THEN 0
  ELSE FromHex(SubSeq(digits, 1, Len(digits) - 1)) * 16
         + digits[Len(digits)]

serialize(pool) ==
  [address |-> FixedHex(pool.address, AddressDigits),
   token0 |-> FixedHex(pool.token0, AddressDigits),
   token1 |-> FixedHex(pool.token1, AddressDigits),
   reserve0 |-> Hex(pool.reserve0),
   reserve1 |-> Hex(pool.reserve1),
   fee_bps |-> pool.fee_bps,
   dex_name |-> pool.dex_name,
   last_updated |-> pool.last_updated]

deserialize(entry) ==
  [address |-> FromHex(entry.address),
   token0 |-> FromHex(entry.token0),
   token1 |-> FromHex(entry.token1),
   reserve0 |-> FromHex(entry.reserve0),
   reserve1 |-> FromHex(entry.reserve1),
   fee_bps |-> entry.fee_bps,
   dex_name |-> entry.dex_name,
   last_updated |-> entry.last_updated]

\* PoolManager::export_to_file: the file after the call and the value returned.
\* The map iterates in `order`; creating the directory or writing the file
\* fails when `writable` is false. The timestamp written next to the pools is
\* only logged by import_from_file and is left out.
export_to_file(cache, file, order, writable) ==
  IF ~writable THEN [file |-> file, ret |-> Err("CacheError")]
  ELSE [file |-> [exists |-> TRUE,
                  pools |-> [i \in 1..Len(order) |->
                               serialize(get_all_pools(cache, order)[i])]],
        ret |-> Ok(0)]

\* a variant that stops after the first descriptor of the snapshot
insert_first_only(map, snapshot) ==
  IF snapshot = <<>> THEN map ELSE insert(map, Head(snapshot))

\* the inserts of import_from_file, in the order of the snapshot
RECURSIVE InsertAll(_, _)
InsertAll(map, snapshot) ==
  IF snapshot = <<>> THEN map
  ELSE InsertAll(insert(map, Head(snapshot)), Tail(snapshot))

\* serde accepts an entry when each address has its full number of digits and
\* the fee fits a u32
Parses(entry) ==
  /\ Len(entry.address) = AddressDigits
  /\ Len(entry.token0) = AddressDigits
  /\ Len(entry.token1) = AddressDigits
  /\ entry.fee_bps \in 0..U32Max
ParsesAll(file) == \A i \in 1..Len(file.pools) : Parses(file.pools[i])

\* a variant that inserts each descriptor as soon as it is parsed
import_as_parsed(cache, file, readable) ==
  IF ~file.exists \/ ~readable
  THEN [cache |-> cache, ret |-> Err("CacheError")]
  ELSE LET k == CHOOSE n \in 0..Len(file.pools) :
                  /\ \A i \in 1..n : Parses(file.pools[i])
                  /\ n = Len(file.pools) \/ ~Parses(file.pools[n + 1])
           snapshot == [i \in 1..k |-> deserialize(file.pools[i])]
       IN [cache |-> InsertAll(cache, snapshot),
           ret |-> IF k = Len(file.pools) THEN Ok(k) ELSE Err("CacheError")]

\* PoolManager::import_from_file: the cache after the call and the value
\* returned. Reading the file fails when there is no file or when `readable`
\* is false; parsing fails when an entry of the document does not parse.
import_from_file(cache, file, readable) ==
  IF ~file.exists \/ ~readable \/ ~ParsesAll(file)
  THEN [cache |-> cache, ret |-> Err("CacheError")]
  ELSE LET snapshot == [i \in 1..Len(file.pools) |-> deserialize(file.pools[i])]
       IN [cache |-> InsertAll(cache, snapshot), ret |-> Ok(Len(snapshot))]

\* PoolManager::clear
clear(cache) == <<>>

\* Aggregator::new: the cache of the new aggregator and the value returned.
\* `file` is the file at the configured cache path.
ParsableUrls == {"http://localhost:8545"}
Aggregator_new(config, file, readable) ==
  IF config.rpc_url \notin ParsableUrls
  THEN [cache |-> <<>>, ret |-> Err("RpcError")]
  ELSE [cache |-> IF file.exists
                  THEN import_from_file(<<>>, file, readable).cache
                  ELSE <<>>,
        ret |-> Ok(0)]

\* utils::parse_address, for addresses written as their hexadecimal digits
parse_address(addr_str) ==
  IF Len(addr_str) = AddressDigits THEN Ok(FromHex(addr_str))
  ELSE Err("InvalidTokenAddress")

\* handle_fetch_pools of the command line: the cache and the file at
\* "./cache/pools.json" after the command, the pools fetched and the value
\* returned
handle_fetch_pools(cache, factory, chain, name, limit, file, order, writable) ==
  LET stay == [cache |-> cache, file |-> file, pools |-> <<>>]
      fetched == fetch_pools(cache, chain, name, limit)
      exported == export_to_file(fetched.cache, file, order, writable)
  IN IF ~IsOk(parse_address(factory))
       THEN [stay EXCEPT !.cache = cache] @@ [ret |-> parse_address(factory)]
     ELSE IF ~IsOk(fetched.ret)
       THEN [stay EXCEPT !.cache = fetched.cache] @@ [ret |-> fetched.ret]
     ELSE IF ~IsOk(exported.ret)
       THEN [stay EXCEPT !.cache = fetched.cache] @@ [ret |-> exported.ret]
     ELSE [cache |-> fetched.cache, file |-> exported.file,
           pools |-> fetched.ret.val, ret |-> Ok(0)]

\* =================================================================== state
VARIABLES
  pair,       \* the reserves the formulas are applied to
  call,       \* the last call of calculate_uniswap_v2_output: arguments, result
  prev_call,  \* the call before it
  imp,        \* the last call of calculate_price_impact: arguments, result
  amt,        \* an amount, its formatted text and the text parsed back
  pools,      \* the pool list handed to the quote engine and the router
  router,     \* the Router: its strategy and its clamped max_hops
  eng,        \* the last call of the quote engine: arguments, result
  rq,         \* the last call of find_best_route: arguments, routes, result
  cache,      \* the pool cache of the PoolManager: address -> descriptor
  disk,       \* the snapshot file: the descriptors written, or no file
  op,         \* the last operation on the cache: the cache before it, its
              \* arguments and result; the cache at the last export and how
              \* far the way export, clear, import has been gone since
  top,        \* the last call of get_top_quotes: arguments, result
  prev_top,   \* the call of get_top_quotes before it
  rd,         \* a bulk fetch in progress and a read running next to it
  bfs,        \* a route search in progress: its queue and the routes found
  fs,         \* the files of the machine, by path
  cfg         \* the configuration of the running process

vars == <<pair, call, prev_call, imp, amt, pools, router, eng, rq,
          cache, disk, op, top, prev_top, rd, bfs, fs, cfg>>
extra == <<rd, bfs, fs, cfg>>
facade == <<cache, disk, op, top, prev_top, extra>>

\* ------------------------------------------------------------ input domains
BigValue == UMax \div FeeBase
Amounts == (0..MaxAmount) \cup {BigValue, BigValue + 1, UMax}
Reserves == (0..MaxReserve) \cup {BigValue, BigValue + 1, UMax}
Fees == {0, 30, 5000, 9999}
Decimals == 0..MaxDecimals
AmountValues ==
  (0..MaxAmount) \cup {10, 105, 1000, 1050, 1500, 1234, U128Max, U128Max + 1,
                       10 * (U128Max + 1), UMax}

IdleCall == [amount_in |-> 0, fee_bps |-> 0, ret |-> NoCall]
IdlePair == [reserve_in |-> 0, reserve_out |-> 0]
IdleImp == [amount_in |-> 0, amount_out |-> 0, ret |-> -2]
IdleAmt == [x |-> 0, d |-> 0, text |-> <<>>, formatted |-> FALSE, parsed |-> NoCall]
IdleRouter == [optimization |-> "Price", max_hops |-> 0]
IdleEng == [fn |-> "none", tokens |-> <<>>, amount_in |-> 0, ret |-> NoCall]
IdleRq == [token_in |-> 0, token_out |-> 0, amount_in |-> 0, routes |-> <<>>,
           quotes |-> NoCall, ret |-> NoCall]
NoFile == [exists |-> FALSE, pools |-> <<>>]
IdleChain == [pair_count |-> NoCall, at |-> <<>>]
IdleOp == [fn |-> "none", before |-> <<>>, access |-> TRUE, fetched |-> <<>>,
           chain |-> IdleChain,
           dex_name |-> "", limit |-> None, attempted |-> <<>>,
           ret |-> NoCall, saved |-> <<>>, stage |-> 0]
IdleTop == [fn |-> "none", token_in |-> 0, token_out |-> 0, amount_in |-> 0,
            optimization |-> "Price", limit |-> 0, ret |-> NoCall]
NoRead == [view |-> "none", arg |-> <<>>, at |-> -1, seen |-> {}]
IdleRd == [phase |-> "none", shard_of |-> <<>>, before |-> <<>>,
           chain |-> IdleChain, dex_name |-> "", i |-> 0, fetch_limit |-> 0,
           inserted |-> <<>>, read |-> NoRead]
IdleBfs == [phase |-> "none", token_in |-> 0, token_out |-> 0,
            queue |-> <<>>, routes |-> <<>>]
NoFiles == <<>>
DefaultCachePath == "./cache/pools.json"
IdleCfg == [rpc_url |-> "http://localhost:8545", cache_path |-> DefaultCachePath]
ExtraIdle == rd = IdleRd /\ bfs = IdleBfs /\ fs = NoFiles /\ cfg = IdleCfg
FacadeIdle ==
  cache = <<>> /\ disk = NoFile /\ op = IdleOp /\ top = IdleTop
  /\ prev_top = IdleTop /\ ExtraIdle
MathIdle ==
  pools = <<>> /\ router = IdleRouter /\ eng = IdleEng /\ rq = IdleRq
  /\ FacadeIdle

\* pool lists: the pool at position i has address i, as the addresses of the
\* cache are its keys; the token pairs cover a triangle of tokens and a pool of
\* a token with itself; the reserves and fee cover an empty side, an ordinary
\* pool whose fee is large enough to be visible on small amounts, and a pool
\* at the default fee whose output exceeds the u128 range
BigReserve == UMax \div 13000
TokenPairs == {<<1, 2>>, <<2, 3>>, <<1, 3>>, <<2, 2>>}
ReservePairs == {<<0, 100, PoolFee>>, <<100, 200, 3000>>, <<1, BigReserve, PoolFee>>}
MakePool(addr, tp, rp) ==
  [address |-> addr, token0 |-> tp[1], token1 |-> tp[2],
   reserve0 |-> rp[1], reserve1 |-> rp[2], fee_bps |-> rp[3]]
PoolListsOf(n, pairs, shapes) ==
  UNION {{[i \in 1..k |-> MakePool(i, tps[i], rps[i])] :
            tps \in [1..k -> pairs], rps \in [1..k -> shapes]} :
         k \in 0..n}
PoolLists(n, pairs) == PoolListsOf(n, pairs, ReservePairs)
QuoteAmounts == {0, 1, 10}
DefaultContext == [gas_price_gwei |-> 30, eth_price_usd |-> 1800]
MaxHopsArgs == {0, 1, 2, 5}
RECURSIVE SeqsUpTo(_, _)
SeqsUpTo(S, n) ==
  IF n = 0 THEN {<<>>}
  ELSE LET shorter == SeqsUpTo(S, n - 1)
       IN shorter \cup {Append(q, x) : q \in {r \in shorter : Len(r) = n - 1}, x \in S}

\* ============================================== the constant product formula
OutputInit ==
  /\ pair \in [reserve_in : Reserves, reserve_out : Reserves]
  /\ call = IdleCall
  /\ prev_call = IdleCall
  /\ imp = IdleImp
  /\ amt = IdleAmt
  /\ MathIdle

Apply(a, f) ==
  /\ prev_call' = call
  /\ call' = [amount_in |-> a, fee_bps |-> f,
              ret |-> calculate_uniswap_v2_output(a, pair.reserve_in,
                                                  pair.reserve_out, f)]
  /\ UNCHANGED <<pair, imp, amt, pools, router, eng, rq, facade>>

\* the first quote against the pool
Quote(a, f) == call.ret = NoCall /\ Apply(a, f)

\* another amount against the same pool, at the same fee
QuoteAmount(a) == call.ret # NoCall /\ Apply(a, call.fee_bps)

\* the same amount against the same reserves, at another fee
QuoteFee(f) == call.ret # NoCall /\ Apply(call.amount_in, f)

OutputNext ==
  \/ \E a \in Amounts, f \in Fees : Quote(a, f)
  \/ \E a \in Amounts : QuoteAmount(a)
  \/ \E f \in Fees : QuoteFee(f)

SpecOutput == OutputInit /\ [][OutputNext]_vars

\* ============================================================= price impact
ImpactInit ==
  /\ pair \in [reserve_in : Reserves, reserve_out : Reserves]
  /\ call = IdleCall
  /\ prev_call = IdleCall
  /\ imp = IdleImp
  /\ amt = IdleAmt
  /\ MathIdle

PriceImpact(a, ao) ==
  /\ imp' = [amount_in |-> a, amount_out |-> ao,
             ret |-> calculate_price_impact(a, pair.reserve_in, ao,
                                            pair.reserve_out)]
  /\ UNCHANGED <<pair, call, prev_call, amt, pools, router, eng, rq, facade>>

ImpactNext == \E a \in Amounts, ao \in Amounts : PriceImpact(a, ao)

SpecImpact == ImpactInit /\ [][ImpactNext]_vars

\* ================================================= amount format and parse
AmountInit ==
  /\ pair = IdlePair
  /\ call = IdleCall
  /\ prev_call = IdleCall
  /\ imp = IdleImp
  /\ amt \in {[IdleAmt EXCEPT !.x = x, !.d = d] : x \in AmountValues, d \in Decimals}
  /\ MathIdle

Format ==
  /\ ~amt.formatted
  /\ amt' = [amt EXCEPT !.text = format_token_amount(amt.x, amt.d),
                        !.formatted = TRUE]
  /\ UNCHANGED <<pair, call, prev_call, imp, pools, router, eng, rq, facade>>

Parse ==
  /\ amt.formatted
  /\ amt.parsed = NoCall
  /\ amt' = [amt EXCEPT !.parsed = parse_token_amount(amt.text, amt.d)]
  /\ UNCHANGED <<pair, call, prev_call, imp, pools, router, eng, rq, facade>>

AmountNext == Format \/ Parse

SpecAmount == AmountInit /\ [][AmountNext]_vars

\* ============================================================ quote engine
MaxEnginePools == 2
UtilsIdle ==
  pair = IdlePair /\ call = IdleCall /\ prev_call = IdleCall /\ imp = IdleImp
  /\ amt = IdleAmt

EngineInit ==
  /\ UtilsIdle
  /\ pools \in PoolLists(MaxEnginePools, TokenPairs \ {<<1, 3>>})
  /\ router = IdleRouter
  /\ eng = IdleEng
  /\ rq = IdleRq
  /\ FacadeIdle

RouteOutput(tokens, amount_in) ==
  /\ eng.ret = NoCall
  /\ eng' = [fn |-> "calculate_route_output", tokens |-> tokens,
             amount_in |-> amount_in,
             ret |-> calculate_route_output(pools, tokens, amount_in)]
  /\ UNCHANGED <<pair, call, prev_call, imp, amt, pools, router, rq, facade>>

BestDirectPool(token_in, token_out, amount_in) ==
  /\ eng.ret = NoCall
  /\ eng' = [fn |-> "find_best_direct_pool", tokens |-> <<token_in, token_out>>,
             amount_in |-> amount_in,
             ret |-> find_best_direct_pool(pools, token_in, token_out, amount_in)]
  /\ UNCHANGED <<pair, call, prev_call, imp, amt, pools, router, rq, facade>>

EngineNext ==
  \/ \E tokens \in SeqsUpTo(Tokens, MaxEnginePools + 1), a \in QuoteAmounts :
       RouteOutput(tokens, a)
  \/ \E ti \in Tokens, to \in Tokens, a \in QuoteAmounts : BestDirectPool(ti, to, a)

SpecEngine == EngineInit /\ [][EngineNext]_vars

\* ================================================================== router
RouterInit ==
  /\ UtilsIdle
  /\ pools \in PoolLists(MaxPools, TokenPairs)
  /\ router \in {Router_new(o, m) : o \in Strategies, m \in MaxHopsArgs}
  /\ eng = IdleEng
  /\ rq = IdleRq
  /\ FacadeIdle

FindBestRoute(token_in, token_out, amount_in, context) ==
  /\ rq.ret = NoCall
  /\ rq' = [token_in |-> token_in, token_out |-> token_out,
            amount_in |-> amount_in,
            routes |-> find_all_routes(router, pools, token_in, token_out),
            quotes |-> QuoteRoutes(router,
                         find_all_routes(router, pools, token_in, token_out),
                         pools, amount_in, context, <<>>),
            ret |-> find_best_route(router, pools, token_in, token_out,
                                    amount_in, context)]
  /\ UNCHANGED <<pair, call, prev_call, imp, amt, pools, router, eng, facade>>

RouterNext ==
  \E ti \in Tokens, to \in Tokens, a \in QuoteAmounts :
    FindBestRoute(ti, to, a, DefaultContext)

SpecRouter == RouterInit /\ [][RouterNext]_vars

\* ------------------------------------------------- routes of unequal length
\* a direct pool between tokens 1 and 3 next to the two pools of the way over
\* token 2, each with any of the reserves
TrianglePairs == <<<<1, 3>>, <<1, 2>>, <<2, 3>>>>
TriangleInit ==
  /\ UtilsIdle
  /\ pools \in {[i \in DOMAIN TrianglePairs |->
                   MakePool(i, TrianglePairs[i], rps[i])] :
                rps \in [DOMAIN TrianglePairs -> ReservePairs]}
  /\ router \in {Router_new(o, m) : o \in Strategies, m \in MaxHopsArgs}
  /\ eng = IdleEng
  /\ rq = IdleRq
  /\ FacadeIdle

SpecTriangle == TriangleInit /\ [][RouterNext]_vars

\* ------------------------------------------------ the route search, by passes
\* find_best_route up to the while loop of bfs_routes: the queue holds the
\* start when max_hops lets the search run, and is empty otherwise
SearchBegin(token_in, token_out) ==
  /\ bfs.phase = "none"
  /\ bfs' = [IdleBfs EXCEPT
               !.phase = "search", !.token_in = token_in,
               !.token_out = token_out,
               !.queue = IF router.max_hops > 1
                           THEN <<[current |-> token_in,
                                   path_tokens |-> <<token_in>>,
                                   path_pools |-> <<>>]>>
                           ELSE <<>>]
  /\ UNCHANGED <<pair, call, prev_call, imp, amt, pools, router, eng, rq,
                 cache, disk, op, top, prev_top, rd, fs, cfg>>

\* one pass of the while loop of bfs_routes
SearchPass ==
  /\ bfs.phase = "search"
  /\ bfs.queue # <<>>
  /\ LET r == BfsStep(build_adjacency_map(pools), bfs.token_out,
                      router.max_hops, bfs.queue, bfs.routes)
     IN bfs' = [bfs EXCEPT !.queue = r.queue, !.routes = r.routes]
  /\ UNCHANGED <<pair, call, prev_call, imp, amt, pools, router, eng, rq,
                 cache, disk, op, top, prev_top, rd, fs, cfg>>

\* the queue is empty: bfs_routes returns, and find_best_route puts the routes
\* after the direct ones, removes the duplicates, quotes each route once and
\* returns; the value returned is the one of the operator find_best_route
SearchReturn ==
  /\ bfs.phase = "search"
  /\ bfs.queue = <<>>
  /\ bfs' = [bfs EXCEPT
               !.phase = "done",
               !.routes =
                 deduplicate_routes(
                   DirectRoutes(build_adjacency_map(pools)[bfs.token_in],
                                bfs.token_in, bfs.token_out) \o bfs.routes)]
  /\ UNCHANGED <<pair, call, prev_call, imp, amt, pools, router, eng, rq,
                 cache, disk, op, top, prev_top, rd, fs, cfg>>

\* the pool lists of the search: up to MaxPools pools on any pairs, one pair
\* being a token with itself, with or without reserves, and the triangle with
\* a fourth pool on any pair
SearchShapes == {<<100, 200, PoolFee>>, <<0, 100, PoolFee>>}
SearchPools ==
  PoolListsOf(MaxPools, TokenPairs, SearchShapes)
    \cup {[i \in 1..(Len(TrianglePairs) + 1) |->
             MakePool(i, (TrianglePairs \o <<tp>>)[i], <<100, 200, PoolFee>>)] :
           tp \in TokenPairs}
SearchInit ==
  /\ UtilsIdle
  /\ pools \in SearchPools
  /\ router \in {Router_new("Balanced", m) : m \in MaxHopsArgs}
  /\ eng = IdleEng
  /\ rq = IdleRq
  /\ FacadeIdle

SearchNext ==
  \/ \E ti \in Tokens, to \in Tokens : SearchBegin(ti, to)
  \/ SearchPass
  \/ SearchReturn

\* find_best_route is straight-line code and loops run by one thread: a pass
\* that can be made is made
SpecSearch ==
  SearchInit /\ [][SearchNext]_vars
    /\ WF_vars(SearchPass) /\ WF_vars(SearchReturn)

\* ======================================================= aggregator queries
TopLimits == {1, 2}
\* the cached pools: an ordinary pool and the same pool with its sides swapped,
\* so that two routes between the same tokens can quote different amounts
CacheShapes == {<<100, 200, 3000>>, <<200, 100, 3000>>}

AggregatorInit ==
  /\ UtilsIdle
  /\ pools = <<>>
  /\ router = IdleRouter
  /\ eng = IdleEng
  /\ rq = IdleRq
  /\ cache \in PoolListsOf(MaxPools, TokenPairs \ {<<2, 2>>}, CacheShapes)
  /\ disk = NoFile
  /\ op = IdleOp
  /\ top = IdleTop
  /\ prev_top = IdleTop
  /\ ExtraIdle

\* get_top_quotes; the map iterates in `order`
TopQuotes(token_in, token_out, amount_in, optimization, limit, order) ==
  /\ pools' = get_all_pools(cache, order)
  /\ router' = Router_new(optimization, Config_default.max_hops)
  /\ prev_top' = top
  /\ top' = [fn |-> "get_top_quotes",
              token_in |-> token_in, token_out |-> token_out,
              amount_in |-> amount_in, optimization |-> optimization,
              limit |-> limit,
              ret |-> get_top_quotes(Config_default, pools', token_in,
                                     token_out, amount_in, optimization, limit)]
  /\ UNCHANGED <<pair, call, prev_call, imp, amt, eng, rq, cache, disk, op, extra>>

\* the first query against the cache
GetTopQuotes(token_in, token_out, amount_in, optimization, limit) ==
  /\ top.ret = NoCall
  /\ rq.ret = NoCall
  /\ TopQuotes(token_in, token_out, amount_in, optimization, limit,
               Ascending(DOMAIN cache))

\* the same query against the same cache once more
GetTopQuotesAgain(order) ==
  /\ top.ret # NoCall
  /\ prev_top.ret = NoCall
  /\ TopQuotes(top.token_in, top.token_out, top.amount_in, top.optimization,
               top.limit, order)

\* Router::find_best_route on the pools of the cache
BestRouteOfCache(token_in, token_out, amount_in, optimization, order) ==
  /\ top.ret = NoCall
  /\ rq.ret = NoCall
  /\ pools' = get_all_pools(cache, order)
  /\ router' = Router_new(optimization, Config_default.max_hops)
  /\ rq' = [token_in |-> token_in, token_out |-> token_out,
             amount_in |-> amount_in,
             routes |-> find_all_routes(router', pools', token_in, token_out),
             quotes |-> QuoteRoutes(router',
                          find_all_routes(router', pools', token_in, token_out),
                          pools', amount_in, DefaultContext, <<>>),
             ret |-> find_best_route(router', pools', token_in, token_out,
                                     amount_in, DefaultContext)]
  /\ UNCHANGED <<pair, call, prev_call, imp, amt, eng, cache, disk, op, top,
                 prev_top, extra>>

AggregatorNext ==
  \/ \E ti \in Tokens, to \in Tokens, a \in QuoteAmounts, o \in Strategies,
        k \in TopLimits :
       GetTopQuotes(ti, to, a, o, k)
  \/ \E order \in Orders(DOMAIN cache) : GetTopQuotesAgain(order)
  \/ \E ti \in Tokens, to \in Tokens, a \in QuoteAmounts, o \in Strategies,
        order \in Orders(DOMAIN cache) :
       BestRouteOfCache(ti, to, a, o, order)

SpecAggregator == AggregatorInit /\ [][AggregatorNext]_vars

\* ============================================================ cache traffic
\* what the node answers for one index of the factory: a pair with its tokens,
\* reserves and the block height, or a failure of one of the five queries
DexNames == {"Uniswap", "SushiSwap"}
PairReserves == {<<100, 200>>, <<0, UMax>>}
GoodPair(addr, reserves) ==
  [all_pairs |-> Ok(addr), token0 |-> Ok(addr), token1 |-> Ok(addr + 1),
   reserves |-> Ok(reserves), block_number |-> Ok(7)]
Queries == {"all_pairs", "token0", "token1", "reserves", "block_number"}
FailingPair(query) ==
  [GoodPair(1, <<100, 200>>) EXCEPT ![query] = [@ EXCEPT !.tag = "Transport"]]
GoodPairs == {GoodPair(a, r) : a \in 1..MaxPools, r \in PairReserves}
PairAnswers == GoodPairs \cup {FailingPair(q) : q \in Queries}

\* the factories: the pair count cannot be read, or it is read and the node
\* answers for each index below it, or it is read and exceeds usize
ChainsOf(answers) ==
  {[pair_count |-> Err("Transport"), at |-> <<>>]}
    \cup UNION {{[pair_count |-> Ok(n), at |-> at] : at \in [1..n -> answers]} :
                n \in 0..MaxPools}
    \cup {[pair_count |-> Ok(UsizeMax + 1), at |-> <<GoodPair(1, <<100, 200>>)>>]}
Limits == {None, Some(0), Some(1), Some(MaxPools + 1)}

\* a descriptor as another run, or another tool, may have left it in a file
Foreign(addr, reserves) ==
  [address |-> addr, token0 |-> addr, token1 |-> addr + 1,
   reserve0 |-> reserves[1], reserve1 |-> reserves[2], fee_bps |-> 25,
   dex_name |-> "Other", last_updated |-> 0]

\* the file at a path: `disk` is the file at the default path
FileAt(path) ==
  IF path = DefaultCachePath THEN disk
  ELSE IF path \in DOMAIN fs THEN fs[path] ELSE NoFile

\* there is an aggregator: the last Aggregator::new, if any, returned one
Constructed == op.fn = "new" => IsOk(op.ret)

\* Aggregator::new with the configuration of the process
AggregatorNew(readable) ==
  LET r == Aggregator_new(cfg, FileAt(cfg.cache_path), readable)
  IN /\ cache' = r.cache
     /\ op' = [IdleOp EXCEPT !.fn = "new", !.before = <<>>,
                              !.access = readable, !.ret = r.ret,
                              !.fetched = IF op.fn = "fetch-pools" /\ IsOk(op.ret)
                                            THEN op.fetched ELSE <<>>]
     /\ UNCHANGED <<pair, call, prev_call, imp, amt, pools, router, eng, rq,
                    disk, top, prev_top, extra>>

\* PoolManager::fetch_pools
FetchPools(chain, dex_name, limit) ==
  LET r == fetch_pools(cache, chain, dex_name, limit)
  IN /\ Constructed
     /\ cache' = r.cache
     /\ op' = [fn |-> "fetch_pools", before |-> cache, access |-> TRUE,
                fetched |-> <<>>,
                chain |-> chain,
                dex_name |-> dex_name, limit |-> limit,
                attempted |-> r.attempted, ret |-> r.ret,
                saved |-> op.saved, stage |-> 0]
     /\ UNCHANGED <<pair, call, prev_call, imp, amt, pools, router, eng, rq,
                    disk, top, prev_top, extra>>

\* PoolManager::export_to_file
ExportToFile(order, writable) ==
  LET r == export_to_file(cache, disk, order, writable)
  IN /\ Constructed
     /\ disk' = r.file
     /\ op' = [IdleOp EXCEPT !.fn = "export_to_file", !.before = cache,
                              !.access = writable,
                              !.ret = r.ret,
                              !.saved = IF IsOk(r.ret) THEN cache ELSE op.saved,
                              !.stage = IF IsOk(r.ret) THEN 1 ELSE 0]
     /\ UNCHANGED <<pair, call, prev_call, imp, amt, pools, router, eng, rq,
                    cache, top, prev_top, extra>>

\* PoolManager::clear
Clear ==
  /\ Constructed
  /\ cache' = clear(cache)
  /\ op' = [IdleOp EXCEPT !.fn = "clear", !.before = cache, !.ret = Ok(0),
                           !.saved = op.saved,
                           !.stage = IF op.stage = 1 THEN 2 ELSE 0]
  /\ UNCHANGED <<pair, call, prev_call, imp, amt, pools, router, eng, rq,
                 disk, top, prev_top, extra>>

\* PoolManager::import_from_file
ImportFromFile(readable) ==
  LET r == import_from_file(cache, disk, readable)
  IN /\ Constructed
     /\ cache' = r.cache
     /\ op' = [IdleOp EXCEPT !.fn = "import_from_file", !.before = cache,
                              !.access = readable,
                              !.ret = r.ret, !.saved = op.saved,
                              !.stage = IF op.stage = 2 /\ IsOk(r.ret)
                                        THEN 3 ELSE 0]
     /\ UNCHANGED <<pair, call, prev_call, imp, amt, pools, router, eng, rq,
                    disk, top, prev_top, extra>>

\* -------------------------------------------------------------- bulk fetch
\* one bulk fetch into a new cache, or into a cache that holds a descriptor
FetchInit ==
  /\ UtilsIdle
  /\ pools = <<>>
  /\ router = IdleRouter
  /\ eng = IdleEng
  /\ rq = IdleRq
  /\ cache \in {<<>>, <<Foreign(1, <<100, 200>>)>>}
  /\ disk = NoFile
  /\ op = IdleOp
  /\ top = IdleTop
  /\ prev_top = IdleTop
  /\ ExtraIdle

FetchNext ==
  \E chain \in ChainsOf(PairAnswers), dex_name \in DexNames, limit \in Limits :
    op.fn = "none" /\ FetchPools(chain, dex_name, limit)

SpecFetch == FetchInit /\ [][FetchNext]_vars

\* ------------------------------------------------------ cache persistence
\* a new PoolManager; the snapshot file is absent, or was left by another run
\* with an address written twice, or was written by hand and describes a pool
\* of a token with itself at a fee of 100%
RepeatedFile ==
  [exists |-> TRUE,
   pools |-> <<serialize(Foreign(1, <<100, 200>>)),
               serialize(Foreign(1, <<0, UMax>>))>>]
HandFile ==
  [exists |-> TRUE,
   pools |-> <<serialize([Foreign(2, <<100, 200>>) EXCEPT
                            !.token1 = 2, !.fee_bps = FeeBase])>>]
\* a document whose first entry parses and whose second entry is cut short
TornFile ==
  [exists |-> TRUE,
   pools |-> <<serialize(Foreign(2, <<100, 200>>)),
               [serialize(Foreign(1, <<100, 200>>)) EXCEPT !.address = <<1>>]>>]
LeftFiles == {NoFile, RepeatedFile, HandFile, TornFile}
Configs ==
  {[IdleCfg EXCEPT !.rpc_url = u] : u \in {"http://localhost:8545", "localhost"}}
CacheInit ==
  /\ UtilsIdle
  /\ pools = <<>>
  /\ router = IdleRouter
  /\ eng = IdleEng
  /\ rq = IdleRq
  /\ cache = <<>>
  /\ disk \in LeftFiles
  /\ op = IdleOp
  /\ top = IdleTop
  /\ prev_top = IdleTop
  /\ rd = IdleRd /\ bfs = IdleBfs /\ fs = NoFiles
  /\ cfg \in Configs

\* the factories of the persistence runs answer every query: the pair at
\* index i has address i + 1
AnsweringChains ==
  {[pair_count |-> Ok(n), at |-> [i \in 1..n |-> GoodPair(i, <<100, 200>>)]] :
     n \in 0..MaxPools}
CacheNext ==
  \/ \E chain \in AnsweringChains, dex_name \in DexNames :
       FetchPools(chain, dex_name, None)
  \/ \E order \in Orders(DOMAIN cache), writable \in BOOLEAN :
       ExportToFile(order, writable)
  \/ Clear
  \/ \E readable \in BOOLEAN : ImportFromFile(readable)
  \/ \E readable \in BOOLEAN : AggregatorNew(readable)

SpecCache == CacheInit /\ [][CacheNext]_vars

\* ------------------------------------------------- one process after another
\* Each run of the command line builds an aggregator from the configuration
\* and handles one command. The configuration names the cache path; the other
\* path holds no file or a file left there.
OtherPath == "./data/pools.json"
Factories == {<<5, 12>>, <<5>>}

\* the fetch-pools command of a run whose aggregator has been built
HandleFetchPools(factory, chain, name, limit, order, writable) ==
  LET r == handle_fetch_pools(cache, factory, chain, name, limit, disk, order,
                              writable)
  IN /\ op.fn = "new" /\ IsOk(op.ret)
     /\ cache' = r.cache
     /\ disk' = r.file
     /\ op' = [IdleOp EXCEPT !.fn = "fetch-pools", !.before = cache,
                              !.access = writable, !.ret = r.ret,
                              !.fetched = r.pools]
     /\ UNCHANGED <<pair, call, prev_call, imp, amt, pools, router, eng, rq,
                    top, prev_top, extra>>

ProcessInit ==
  /\ UtilsIdle
  /\ pools = <<>>
  /\ router = IdleRouter
  /\ eng = IdleEng
  /\ rq = IdleRq
  /\ cache = <<>>
  /\ disk \in {NoFile, RepeatedFile}
  /\ op = IdleOp
  /\ top = IdleTop
  /\ prev_top = IdleTop
  /\ rd = IdleRd /\ bfs = IdleBfs
  /\ fs \in [{OtherPath} -> {NoFile, HandFile}]
  /\ cfg \in {[IdleCfg EXCEPT !.cache_path = p] :
                p \in {DefaultCachePath, OtherPath}}

ProcessNext ==
  \/ \E readable \in BOOLEAN : AggregatorNew(readable)
  \/ \E factory \in Factories, chain \in AnsweringChains, limit \in Limits,
        writable \in BOOLEAN :
       \E order \in Orders(DOMAIN fetch_pools(cache, chain, "Uniswap",
                                              limit).cache) :
         HandleFetchPools(factory, chain, "Uniswap", limit, order, writable)

SpecProcess == ProcessInit /\ [][ProcessNext]_vars

\* ===================================================== reads during a fetch
\* The cache is a DashMap: its entries are spread over shards by the hash of
\* the key, insert locks the shard of its key, and an iteration locks and
\* reads one shard after the other. The hasher is seeded per map, so the
\* shard of an address is any of them.
NumShards == 2
Shards == 0..(NumShards - 1)
Views == {<<"all", <<>>>>} \cup {<<"with_token", <<t>>>> : t \in Tokens}
           \cup {<<"for_pair", <<1, 2>>>>, <<"for_pair", <<3, 2>>>>}

\* the filters of get_all_pools, get_pools_with_token and get_pools_for_pair
Shown(view, arg, pool) ==
  CASE view = "all" -> TRUE
    [] view = "with_token" -> pool.token0 = arg[1] \/ pool.token1 = arg[1]
    [] view = "for_pair" ->
         \/ pool.token0 = arg[1] /\ pool.token1 = arg[2]
         \/ pool.token0 = arg[2] /\ pool.token1 = arg[1]

ConcurrentChains ==
  {[pair_count |-> Ok(n), at |-> at] :
     n \in {MaxPools},
     at \in [1..MaxPools -> {GoodPair(a, <<100, 200>>) : a \in 1..MaxPools}
                              \cup {FailingPair("reserves")}]}

ConcurrentInit ==
  /\ UtilsIdle
  /\ pools = <<>>
  /\ router = IdleRouter
  /\ eng = IdleEng
  /\ rq = IdleRq
  /\ cache \in {<<>>, <<Foreign(1, <<100, 200>>)>>}
  /\ disk = NoFile
  /\ op = IdleOp
  /\ top = IdleTop
  /\ prev_top = IdleTop
  /\ rd \in {[IdleRd EXCEPT !.shard_of = h, !.before = cache] :
               h \in [1..MaxPools -> Shards]}
  /\ bfs = IdleBfs
  /\ fs = NoFiles
  /\ cfg = IdleCfg

\* fetch_pools up to its loop: the pair count is read and the limit computed
BeginFetch(chain, dex_name, limit) ==
  /\ rd.phase = "none"
  /\ rd' = [rd EXCEPT
              !.chain = chain, !.dex_name = dex_name,
              !.phase = IF IsOk(chain.pair_count)
                           /\ as_usize(chain.pair_count.val) # -1
                        THEN "fetching" ELSE "done",
              !.fetch_limit =
                IF IsOk(chain.pair_count) /\ as_usize(chain.pair_count.val) # -1
                THEN Min(IF limit.some THEN limit.v
                         ELSE as_usize(chain.pair_count.val),
                         as_usize(chain.pair_count.val))
                ELSE 0]
  /\ UNCHANGED <<pair, call, prev_call, imp, amt, pools, router, eng, rq,
                 cache, disk, op, top, prev_top, bfs, fs, cfg>>

\* one turn of the loop of fetch_pools: the queries for index i, and the
\* insert when they all succeed
FetchIndex ==
  /\ rd.phase = "fetching"
  /\ LET fetched == fetch_pool_at_index(rd.chain, rd.i, rd.dex_name)
         next == rd.i + 1
     IN IF rd.i >= rd.fetch_limit
        THEN /\ rd' = [rd EXCEPT !.phase = "done"]
             /\ cache' = cache
        ELSE /\ cache' = IF IsOk(fetched) THEN insert(cache, fetched.val)
                         ELSE cache
             /\ rd' = [rd EXCEPT
                         !.i = next,
                         !.inserted = IF IsOk(fetched)
                                      THEN Append(@, fetched.val) ELSE @]
  /\ UNCHANGED <<pair, call, prev_call, imp, amt, pools, router, eng, rq,
                 disk, op, top, prev_top, bfs, fs, cfg>>

\* get_all_pools, get_pools_with_token or get_pools_for_pair creates its
\* iterator
BeginRead(view, arg) ==
  /\ rd.read.at = -1
  /\ rd' = [rd EXCEPT !.read = [view |-> view, arg |-> arg, at |-> 0,
                                seen |-> {}]]
  /\ UNCHANGED <<pair, call, prev_call, imp, amt, pools, router, eng, rq,
                 cache, disk, op, top, prev_top, bfs, fs, cfg>>

\* the iterator reads its next shard
ReadShard ==
  /\ rd.read.at \in Shards
  /\ rd' = [rd EXCEPT
              !.read.at = @ + 1,
              !.read.seen =
                @ \cup {cache[a] : a \in
                          {b \in DOMAIN cache :
                             /\ rd.shard_of[b] = rd.read.at
                             /\ Shown(rd.read.view, rd.read.arg, cache[b])}}]
  /\ UNCHANGED <<pair, call, prev_call, imp, amt, pools, router, eng, rq,
                 cache, disk, op, top, prev_top, bfs, fs, cfg>>

\* get_pool
GetPool(address) ==
  /\ rd.read.at = -1
  /\ rd' = [rd EXCEPT !.read = [view |-> "get", arg |-> <<address>>,
                                at |-> NumShards,
                                seen |-> {cache[a] : a \in DOMAIN cache
                                                       \cap {address}}]]
  /\ UNCHANGED <<pair, call, prev_call, imp, amt, pools, router, eng, rq,
                 cache, disk, op, top, prev_top, bfs, fs, cfg>>

ConcurrentNext ==
  \/ \E chain \in ConcurrentChains : BeginFetch(chain, "Uniswap", None)
  \/ FetchIndex
  \/ \E v \in Views : BeginRead(v[1], v[2])
  \/ ReadShard
  \/ \E a \in 1..MaxPools : GetPool(a)

SpecConcurrent == ConcurrentInit /\ [][ConcurrentNext]_vars

\* ==================================================== queries and the cache
\* an Aggregator whose cache is filled, emptied and queried
QueriesInit ==
  /\ UtilsIdle
  /\ pools = <<>>
  /\ router = IdleRouter
  /\ eng = IdleEng
  /\ rq = IdleRq
  /\ cache = <<>>
  /\ disk \in {NoFile, RepeatedFile}
  /\ op = IdleOp
  /\ top = IdleTop
  /\ prev_top = IdleTop
  /\ ExtraIdle

\* Aggregator::get_best_quote; the map iterates in `order`
GetBestQuote(token_in, token_out, amount_in, optimization, order) ==
  /\ pools' = get_all_pools(cache, order)
  /\ router' = Router_new(optimization, Config_default.max_hops)
  /\ prev_top' = top
  /\ top' = [fn |-> "get_best_quote",
              token_in |-> token_in, token_out |-> token_out,
              amount_in |-> amount_in, optimization |-> optimization,
              limit |-> 1,
              ret |-> get_best_quote(Config_default, pools', token_in,
                                     token_out, amount_in, optimization)]
  /\ UNCHANGED <<pair, call, prev_call, imp, amt, eng, rq, cache, disk, op, extra>>

\* at most two queries in a run, from token 1, for nothing or for an amount,
\* under the strategy the command line defaults to
QueryAmounts == {0, 10}
QueryStrategies == {"Balanced"}
QueriesNext ==
  \/ \E chain \in AnsweringChains : FetchPools(chain, "Uniswap", None)
  \/ Clear
  \/ \E readable \in BOOLEAN : ImportFromFile(readable)
  \/ \E to \in Tokens \ {1}, a \in QueryAmounts, o \in QueryStrategies,
        k \in TopLimits :
       /\ prev_top.fn = "none"
       /\ TopQuotes(1, to, a, o, k, Ascending(DOMAIN cache))
  \/ \E to \in Tokens \ {1}, a \in QueryAmounts, o \in QueryStrategies :
       /\ prev_top.fn = "none"
       /\ GetBestQuote(1, to, a, o, Ascending(DOMAIN cache))

SpecQueries == QueriesInit /\ [][QueriesNext]_vars

\* ================================================================ properties
\* Whether the product a * b fits the word: schoolbook multiplication on two
\* 15-bit limbs, so that no intermediate value leaves TLC's integers.
Limb == 2^15
ProductFits(a, b) ==
  LET ah == a \div Limb
      al == a % Limb
      bh == b \div Limb
      bl == b % Limb
      mid == ah * bl + al * bh
  IN ah * bh = 0 /\ mid < Limb /\ mid * Limb + al * bl <= UMax

ReferenceOutput(a, ri, ro, f) ==
  LET ff == FeeBase - f
  IN IF a = 0 THEN Err("InvalidAmount")
     ELSE IF ri = 0 \/ ro = 0 THEN Err("InsufficientLiquidity")
     ELSE IF \/ ~ProductFits(a, ff)
             \/ ~ProductFits(a * ff, ro)
             \/ ~ProductFits(ri, FeeBase)
             \/ ri * FeeBase + a * ff > UMax
       THEN Err("MathError")
     ELSE LET q == (a * ff * ro) \div (ri * FeeBase + a * ff)
          IN IF q > 0 THEN Ok(q) ELSE Err("InsufficientLiquidity")

AllFit(a, ri, ro, f) ==
  LET ff == FeeBase - f
  IN /\ ProductFits(a, ff)
     /\ ProductFits(a * ff, ro)
     /\ ProductFits(ri, FeeBase)
     /\ ri * FeeBase + a * ff <= UMax

\* C1: calculate_uniswap_v2_output agrees with the reference for every input
\* with fee_bps < 10000: InvalidAmount on a zero amount, else
\* InsufficientLiquidity on a zero reserve, else MathError when a product or
\* the denominator sum leaves the word, else the floor of the quotient,
\* returned as Ok when positive and as InsufficientLiquidity when zero.
C1_ReferenceAgreement ==
  call.ret # NoCall =>
    call.ret = ReferenceOutput(call.amount_in, pair.reserve_in,
                               pair.reserve_out, call.fee_bps)

C1_Witness ==
  /\ call.ret = Err("MathError")
  /\ call.amount_in \in 1..MaxAmount
  /\ prev_call.ret.tag = "Ok"

\* C2: with positive reserves and amount and products that fit, a returned
\* output is strictly below reserve_out, and an output is returned and is
\* positive whenever the numerator exceeds the denominator.
C2_OutputBounds ==
  LET a == call.amount_in
      ri == pair.reserve_in
      ro == pair.reserve_out
      ff == FeeBase - call.fee_bps
  IN (call.ret # NoCall /\ a > 0 /\ ri > 0 /\ ro > 0
      /\ AllFit(a, ri, ro, call.fee_bps)) =>
       /\ IsOk(call.ret) => call.ret.val < ro
       /\ (a * ff * ro > ri * FeeBase + a * ff) =>
            (IsOk(call.ret) /\ call.ret.val > 0)

C2_Witness ==
  /\ IsOk(call.ret)
  /\ call.ret.val = pair.reserve_out - 1
  /\ call.ret.val > 1

\* the two last calls quote a_in and 2 * a_in at the same fee, successfully
Doubled ==
  /\ IsOk(prev_call.ret)
  /\ IsOk(call.ret)
  /\ call.fee_bps = prev_call.fee_bps
  /\ call.amount_in = 2 * prev_call.amount_in

\* C3 as stated: at a fee above zero, the output for 2 * a_in is strictly
\* greater than the output for a_in and strictly less than twice it.
C3_StrictDoubling ==
  (Doubled /\ call.fee_bps > 0) =>
    /\ call.ret.val > prev_call.ret.val
    /\ call.ret.val < 2 * prev_call.ret.val

\* C3 amended: the output for 2 * a_in is at least the output for a_in and at
\* most twice that output plus one (integer division rounds both down).
C3_Doubling ==
  Doubled =>
    /\ call.ret.val >= prev_call.ret.val
    /\ call.ret.val <= 2 * prev_call.ret.val + 1

C3_Witness ==
  /\ Doubled
  /\ call.fee_bps > 0
  /\ call.ret.val = 2 * prev_call.ret.val + 1

\* the two last calls quote the same amount at two fees, successfully
TwoFees ==
  /\ IsOk(prev_call.ret)
  /\ IsOk(call.ret)
  /\ call.amount_in = prev_call.amount_in
  /\ prev_call.fee_bps < call.fee_bps

\* C4 as stated: the output at the lower fee is strictly greater.
C4_StrictFeeMonotone == TwoFees => prev_call.ret.val > call.ret.val

\* C4 amended: the output at the lower fee is greater than or equal to the
\* output at the higher fee.
C4_FeeMonotone == TwoFees => prev_call.ret.val >= call.ret.val

C4_Witness == TwoFees /\ prev_call.ret.val > call.ret.val

\* C5: calculate_price_impact returns a value in [0, 10000] and never aborts;
\* 10000 on a zero reserve, on an overflowing product and on a zero
\* amount_in * reserve_out; otherwise 0 when amount_out * reserve_in is at
\* least amount_in * reserve_out.
C5_ImpactRange ==
  LET a == imp.amount_in
      ao == imp.amount_out
      ri == pair.reserve_in
      ro == pair.reserve_out
      prohibitive ==
        \/ ri = 0 \/ ro = 0
        \/ ~ProductFits(a, ro)
        \/ ~ProductFits(ao, ri)
        \/ a * ro = 0
        \/ (a * ro > ao * ri /\ ~ProductFits(a * ro - ao * ri, ImpactMax))
  IN imp.ret # IdleImp.ret =>
       /\ imp.ret \in 0..ImpactMax
       /\ prohibitive => imp.ret = ImpactMax
       /\ (~prohibitive /\ ao * ri >= a * ro) => imp.ret = 0

C5_Witness ==
  /\ imp.ret \in 1..(ImpactMax - 1)
  /\ imp.amount_out > 0

\* C6: parse_token_amount(format_token_amount(x, d), d) = x for every word x
\* and every number of decimals d.
C6_RoundTrip == amt.parsed # NoCall => amt.parsed = Ok(amt.x)

\* ----------------------------------------------------------------- routes
RECURSIVE SeqSum(_, _)
SeqSum(hops, field) ==
  IF hops = <<>> THEN 0 ELSE Head(hops)[field] + SeqSum(Tail(hops), field)

PoolTokens(p) == {p.token0, p.token1}

\* the quotes find_best_route computed for its routes, and the one it returned
ProducedQuotes ==
  (IF IsOk(rq.quotes)
     THEN {rq.quotes.val[i] : i \in 1..Len(rq.quotes.val)} ELSE {})
  \cup (IF IsOk(rq.ret) THEN {rq.ret.val} ELSE {})

WellFormed(q) ==
  LET n == Len(q.hops)
  IN /\ n > 0
     /\ q.hops[1].token_in = q.token_in
     /\ q.hops[1].amount_in = q.amount_in
     /\ q.hops[n].token_out = q.token_out
     /\ q.hops[n].amount_out = q.amount_out
     /\ \A i \in 1..(n - 1) :
          /\ q.hops[i].token_out = q.hops[i + 1].token_in
          /\ q.hops[i].amount_out = q.hops[i + 1].amount_in
     /\ \A i \in 1..n :
          \E k \in 1..Len(pools) :
            /\ pools[k].address = q.hops[i].pool
            /\ {q.hops[i].token_in, q.hops[i].token_out} = PoolTokens(pools[k])
     /\ q.total_fee = SeqSum(q.hops, "fee")
     /\ q.gas_estimate = SeqSum(q.hops, "gas_estimate")

\* C7: every RouteQuote the router produces is well-formed: its hops are not
\* empty, start at the quote's token_in and amount_in, end at its token_out and
\* amount_out, chain token and amount from hop to hop, each joins the two
\* tokens of its pool, and total_fee and gas_estimate are the sums over the hops.
C7_WellFormedQuotes == \A q \in ProducedQuotes : WellFormed(q)

\* a two-hop quote was returned, with a fee on both hops
C7_Witness ==
  /\ IsOk(rq.ret)
  /\ Len(rq.ret.val.hops) = 2
  /\ rq.ret.val.hops[1].token_out # rq.ret.val.token_out
  /\ rq.ret.val.total_fee > rq.ret.val.hops[1].fee
  /\ rq.ret.val.gas_estimate = 2 * GasPerSwap

\* a route shape calculate_route_output is said to refuse
BadShape ==
  \/ pools = <<>>
  \/ Len(eng.tokens) # Len(pools) + 1
  \/ \E i \in 1..Len(pools) :
       ~({eng.tokens[i], eng.tokens[i + 1]} \subseteq PoolTokens(pools[i]))

\* C8: calculate_route_output fails with InvalidAmount when the token list is
\* not one longer than a non-empty pool list and when some pool does not hold
\* both tokens of its hop, so the hops it returns join the tokens of their pools.
C8_ShapeRecheck ==
  eng.fn = "calculate_route_output" =>
    /\ BadShape => eng.ret = Err("InvalidAmount")
    /\ IsOk(eng.ret) =>
         \A i \in 1..Len(eng.ret.val) :
           {eng.ret.val[i].token_in, eng.ret.val[i].token_out}
             = PoolTokens(pools[i])

\* the pools of the list that join the requested pair, and their quotes
MatchingIdx ==
  {i \in 1..Len(pools) : PoolTokens(pools[i]) = {eng.tokens[1], eng.tokens[2]}}
QuoteAt(i) == calculate_pool_output(pools[i], eng.tokens[1], eng.amount_in)
QuotedIdx == {i \in MatchingIdx : IsOk(QuoteAt(i))}

\* C9: find_best_direct_pool returns the quote of a pool joining the requested
\* pair whose amount_out is maximal among the matching pools that quote, the
\* earliest such pool on a tie; failing pools are skipped; it fails with
\* NoRouteFound when no pool matches or every matching pool fails.
C9_BestDirectPool ==
  eng.fn = "find_best_direct_pool" =>
    IF QuotedIdx = {} THEN eng.ret = Err("NoRouteFound")
    ELSE \E i \in QuotedIdx :
           /\ eng.ret = Ok(QuoteAt(i).val)
           /\ \A j \in QuotedIdx :
                /\ QuoteAt(j).val.amount_out <= QuoteAt(i).val.amount_out
                /\ j < i => QuoteAt(j).val.amount_out < QuoteAt(i).val.amount_out

\* two matching pools quote the same amount and the first one is returned
C9_Witness ==
  /\ eng.fn = "find_best_direct_pool"
  /\ QuotedIdx = {1, 2}
  /\ QuoteAt(1).val.amount_out = QuoteAt(2).val.amount_out
  /\ IsOk(eng.ret)
  /\ eng.ret.val.pool.address = 1

\* C10: find_best_route completes with a RouteQuote or with NoRouteFound: it
\* never aborts and never returns another error.
C10_Completes == rq.ret # NoCall => rq.ret.tag \in {"Ok", "NoRouteFound"}

\* ------------------------------------------------------------ route filter
\* the result of quoting the i-th enumerated route on its own
RouteResult(i) ==
  calculate_route_quote(router, rq.routes[i], pools, rq.amount_in,
                        DefaultContext)
RouteIdx == 1..Len(rq.routes)
QuotedRoutes == {i \in RouteIdx : IsOk(RouteResult(i))}

\* the quotes of the routes that quote successfully, in route order
RECURSIVE Selected(_, _)
Selected(i, n) ==
  IF i > n THEN <<>>
  ELSE (IF i \in QuotedRoutes THEN <<RouteResult(i).val>> ELSE <<>>)
       \o Selected(i + 1, n)

\* C11: a route whose quoting fails is dropped and the other routes are still
\* quoted and ranked; find_best_route fails with NoRouteFound exactly when no
\* route was enumerated or every enumerated route failed quoting.
C11_FailuresFiltered ==
  rq.ret # NoCall =>
    /\ rq.ret = Err("NoRouteFound")
         <=> (rq.routes = <<>>
              \/ \A i \in RouteIdx : RouteResult(i).tag \notin {"Ok", "Panic"})
    /\ \A i \in RouteIdx :
         ~IsOk(RouteResult(i)) /\ RouteResult(i).tag # "Panic"
           => rq.ret.tag # RouteResult(i).tag
    /\ IsOk(rq.ret) =>
         /\ rq.quotes = Ok(Selected(1, Len(rq.routes)))
         /\ \E i \in QuotedRoutes : rq.ret.val = RouteResult(i).val

\* one enumerated route fails quoting, another one is quoted and returned
C11_Witness ==
  /\ rq.ret # NoCall
  /\ \E i \in RouteIdx : RouteResult(i).tag = "MathError"
  /\ QuotedRoutes # {}
  /\ IsOk(rq.ret)

\* ----------------------------------------------------------------- ranking
\* the weights of the strategies, in tenths, and the score they give a quote,
\* times 100: the gas cost in USD times 1000 is gas * gwei * usd / 10^6
StrategyWeights ==
  [Price |-> <<10, 1, 1>>, Gas |-> <<3, 10, 1>>, Slippage |-> <<3, 1, 10>>,
   Balanced |-> <<5, 3, 2>>]
ScoreOf(q, optimization) ==
  LET w == StrategyWeights[optimization]
  IN 10 * w[1] * q.amount_out
     - w[2] * ((q.gas_estimate \div 100000) * 30 * 1800)
     - 10 * w[3] * q.price_impact_bps

\* the routes of the last get_top_quotes and their quotes, each on its own
TopRoutes == find_all_routes(router, pools, top.token_in, top.token_out)
TopResult(i) ==
  calculate_route_quote(router, TopRoutes[i], pools, top.amount_in,
                        DefaultContext)
TopQuoted == {i \in 1..Len(TopRoutes) : IsOk(TopResult(i))}

\* C12: the quote find_best_route returns, and the first quote of the list
\* get_top_quotes returns, has a score at least the score of every enumerated
\* route that quotes; the list holds at most `limit` quotes in descending
\* order of score; the score is the weighted sum of the strategy.
C12_Ranking ==
  /\ IsOk(rq.ret) =>
       /\ rq.ret.val.score = ScoreOf(rq.ret.val, router.optimization)
       /\ \A i \in QuotedRoutes : rq.ret.val.score >= RouteResult(i).val.score
  /\ IsOk(top.ret) =>
       LET list == top.ret.val
       IN /\ Len(list) = Min(top.limit, Cardinality(TopQuoted))
          /\ \A i \in 1..Len(list) :
               list[i].score = ScoreOf(list[i], top.optimization)
          /\ \A i \in 1..(Len(list) - 1) : list[i].score >= list[i + 1].score
          /\ \A i \in TopQuoted : list[1].score >= TopResult(i).val.score

\* two routes quote different scores and the list holds both, the better first
C12_Witness ==
  /\ IsOk(top.ret)
  /\ Len(top.ret.val) = 2
  /\ top.ret.val[1].score > top.ret.val[2].score
  /\ top.ret.val[1].hops # top.ret.val[2].hops

\* ------------------------------------------------------------- determinism
\* the pool sequence of a quote
PoolSequence(q) == [i \in 1..Len(q.hops) |-> q.hops[i].pool]

\* C13: the same query against the same cached descriptors returns the same
\* scores in the same ranking order, and the same best route by its pool
\* sequence, whatever order the cache iterates its pools in, also when two
\* routes have equal scores.
C13_Deterministic ==
  /\ (top.ret # NoCall /\ prev_top.ret # NoCall) => top.ret = prev_top.ret
  /\ IsOk(rq.ret) =>
       \A order \in Orders(DOMAIN cache) :
         LET other == find_best_route(router, get_all_pools(cache, order),
                                      rq.token_in, rq.token_out, rq.amount_in,
                                      DefaultContext)
         IN IsOk(other)
            /\ other.val.score = rq.ret.val.score
            /\ PoolSequence(other.val) = PoolSequence(rq.ret.val)

\* ------------------------------------------------------------- enumeration
\* the descriptors keep the invariant of the data model: two different tokens
ValidDescriptors == \A k \in 1..Len(pools) : pools[k].token0 # pools[k].token1

NoRepeat(seq) == \A i, j \in 1..Len(seq) : seq[i] = seq[j] => i = j

C15_PathLengthBound ==
  /\ router.max_hops <= MaxHopsCap
  /\ rq.ret # NoCall =>
       /\ \A i \in RouteIdx : Len(rq.routes[i].pools) <= router.max_hops
       /\ IsOk(rq.ret) => Len(rq.ret.val.hops) <= router.max_hops

\* the pools with both reserves non-zero, and whether an address is one
HasLiquidity(p) == p.reserve0 # 0 /\ p.reserve1 # 0
LiquidPools == SelectSeq(pools, HasLiquidity)
LiquidAddress(addr) ==
  \E k \in 1..Len(pools) : pools[k].address = addr /\ HasLiquidity(pools[k])

\* C16: no route the router enumerates or returns uses a pool with a zero
\* reserve, and such pools take nothing away: the routes and the result are
\* those of the pool list without them.
C16_ZeroReserveExcluded ==
  rq.ret # NoCall =>
    /\ \A i \in RouteIdx :
         \A h \in 1..Len(rq.routes[i].pools) :
           LiquidAddress(rq.routes[i].pools[h])
    /\ IsOk(rq.ret) =>
         \A h \in 1..Len(rq.ret.val.hops) :
           LiquidAddress(rq.ret.val.hops[h].pool)
    /\ rq.routes = find_all_routes(router, LiquidPools, rq.token_in,
                                   rq.token_out)
    /\ rq.ret = find_best_route(router, LiquidPools, rq.token_in, rq.token_out,
                                rq.amount_in, DefaultContext)

\* a pool with a zero reserve joins the two tokens directly and the route
\* through another pool is returned
C16_Witness ==
  /\ IsOk(rq.ret)
  /\ \E k \in 1..Len(pools) :
       /\ ~HasLiquidity(pools[k])
       /\ PoolTokens(pools[k]) = {rq.token_in, rq.token_out}

\* the simple paths from the end of `path_tokens` to the token `to` with at
\* most n more edges, over the pools with liquidity: each a route
RECURSIVE SimplePaths(_, _, _, _)
SimplePaths(path_tokens, path_pools, to, n) ==
  IF n = 0 THEN {}
  ELSE
    LET cur == path_tokens[Len(path_tokens)]
        steps ==
          {<<k, t>> \in (1..Len(pools)) \X Tokens :
             /\ HasLiquidity(pools[k])
             /\ PoolTokens(pools[k]) = {cur, t}
             /\ \A i \in 1..Len(path_tokens) : path_tokens[i] # t}
    IN UNION {
         IF st[2] = to
           THEN {[tokens |-> Append(path_tokens, st[2]),
                  pools |-> Append(path_pools, pools[st[1]].address)]}
           ELSE SimplePaths(Append(path_tokens, st[2]),
                            Append(path_pools, pools[st[1]].address), to, n - 1)
         : st \in steps}

Descriptors(map) == {map[a] : a \in DOMAIN map}

\* C18: when a cache S is exported, cleared and imported from the file just
\* written, the cache again holds exactly the descriptors of S, with the same
\* addresses and field values, and the import returns the number of
\* descriptors of S.
C18_RoundTrip ==
  op.stage = 3 =>
    /\ DOMAIN cache = DOMAIN op.saved
    /\ Descriptors(cache) = Descriptors(op.saved)
    /\ \A a \in DOMAIN cache : cache[a] = op.saved[a]
    /\ op.ret = Ok(Cardinality(Descriptors(op.saved)))

\* a cache of two descriptors, one with an empty side and one fetched, has
\* gone through export, clear and import
C18_Witness ==
  /\ op.stage = 3
  /\ Cardinality(DOMAIN op.saved) = 2
  /\ \E a \in DOMAIN op.saved : op.saved[a].reserve0 = 0
  /\ \E a \in DOMAIN op.saved : op.saved[a].fee_bps = PoolFee

\* the snapshot read by the last import and the addresses it names
Snapshot == [i \in 1..Len(disk.pools) |-> deserialize(disk.pools[i])]
SnapshotAddresses == {Snapshot[i].address : i \in 1..Len(Snapshot)}
LastOf(a) ==
  CHOOSE i \in 1..Len(Snapshot) :
    /\ Snapshot[i].address = a
    /\ \A j \in 1..Len(Snapshot) : Snapshot[j].address = a => j <= i
Imported == op.fn = "import_from_file" /\ IsOk(op.ret)

\* C19: after a successful import every address of the snapshot is cached with
\* the last descriptor the snapshot gives for it, every descriptor cached before
\* under an address the snapshot does not name is still cached unchanged, and no
\* address cached before is missing; and in every state the cache holds each
\* descriptor under its own address, so one descriptor per address.
C19_ImportAdditive ==
  /\ \A a \in DOMAIN cache : cache[a].address = a
  /\ Imported =>
       /\ \A a \in SnapshotAddresses :
            a \in DOMAIN cache /\ cache[a] = Snapshot[LastOf(a)]
       /\ \A a \in DOMAIN op.before :
            /\ a \in DOMAIN cache
            /\ a \notin SnapshotAddresses => cache[a] = op.before[a]

\* an import of a snapshot that names one address twice, into a cache that held
\* another descriptor under that address and a descriptor under another address
C19_Witness ==
  /\ Imported
  /\ \E i, j \in 1..Len(Snapshot) :
       i < j /\ Snapshot[i].address = Snapshot[j].address
             /\ Snapshot[i] # Snapshot[j]
  /\ \E a \in DOMAIN op.before \cap SnapshotAddresses : op.before[a] # cache[a]
  /\ \E a \in DOMAIN op.before : a \notin SnapshotAddresses

\* -------------------------------------------------------------- bulk fetch
\* the node answers all five queries for index i
Answered(i) ==
  /\ i + 1 <= Len(op.chain.at)
  /\ \A q \in Queries : IsOk(op.chain.at[i + 1][q])

\* the descriptor the answers for index i describe
Described(i) ==
  [address |-> op.chain.at[i + 1].all_pairs.val,
   token0 |-> op.chain.at[i + 1].token0.val,
   token1 |-> op.chain.at[i + 1].token1.val,
   reserve0 |-> op.chain.at[i + 1].reserves.val[1],
   reserve1 |-> op.chain.at[i + 1].reserves.val[2],
   fee_bps |-> 30,
   dex_name |-> op.dex_name,
   last_updated |-> op.chain.at[i + 1].block_number.val]

\* the descriptors of the answered indices i .. m - 1, in index order
RECURSIVE DescribedFrom(_, _)
DescribedFrom(i, m) ==
  IF i >= m THEN <<>>
  ELSE (IF Answered(i) THEN <<Described(i)>> ELSE <<>>)
         \o DescribedFrom(i + 1, m)

\* min(limit, count) of the last fetch
Wanted ==
  IF op.limit.some THEN Min(op.limit.v, op.chain.pair_count.val)
  ELSE op.chain.pair_count.val

\* C20: once the pair count has been read, fetch_pools attempts exactly the
\* indices 0 .. min(limit, count) - 1 in increasing order, skips exactly the
\* indices for which one of the five queries fails, and returns Ok with the
\* descriptors of the other indices in index order, each with fee_bps 30 and
\* the given label and each inserted into the cache.
C20_BulkFetch ==
  (op.fn = "fetch_pools" /\ IsOk(op.chain.pair_count)) =>
    /\ op.attempted = [i \in 1..Wanted |-> i - 1]
    /\ op.ret = Ok(DescribedFrom(0, Wanted))
    /\ \A i \in 0..(Wanted - 1) :
         Answered(i) =>
           /\ Described(i).address \in DOMAIN cache
           /\ \/ cache[Described(i).address] = Described(i)
              \/ \E j \in (i + 1)..(Wanted - 1) :
                   /\ Answered(j)
                   /\ Described(j).address = Described(i).address
    /\ \A a \in DOMAIN op.before :
         (\A i \in 0..(Wanted - 1) : Answered(i) => Described(i).address # a)
           => a \in DOMAIN cache /\ cache[a] = op.before[a]

\* ---------------------------------------------------- reads during a fetch
\* the read has seen the i-th insert of the fetch, or a later insert of the
\* fetch at the same address
SeenInsert(i) ==
  \E k \in i..Len(rd.inserted) :
    /\ rd.inserted[k].address = rd.inserted[i].address
    /\ rd.inserted[k] \in rd.read.seen

\* C21: a read next to a bulk fetch sees only whole descriptors, each one a
\* descriptor the cache held before the fetch or one the fetch inserted, and
\* the inserts it sees form a prefix of the fetch: when it sees the insert of
\* one index it also holds every earlier insert at another address that its
\* filter lets through.
C21_ReadsSeePrefix ==
  rd.read.at = NumShards =>
    /\ rd.read.seen \subseteq
         Descriptors(rd.before) \cup {rd.inserted[i] : i \in DOMAIN rd.inserted}
    /\ \A i, j \in DOMAIN rd.inserted :
         (/\ i < j
          /\ rd.inserted[j] \in rd.read.seen
          /\ rd.inserted[i].address # rd.inserted[j].address
          /\ rd.read.view # "get"
          /\ Shown(rd.read.view, rd.read.arg, rd.inserted[i]))
           => SeenInsert(i)

\* ---------------------------------------------------- queries, empty cache
\* (`pools` is the list the last query took from the cache)
\* C22: a query of get_best_quote or get_top_quotes against an empty cache
\* fails with PoolNotFound (not with NoRouteFound, not with an empty list),
\* whether the cache was never filled or was cleared; a query against a cache
\* that holds a pool never fails with PoolNotFound.
C22_EmptyCache ==
  top.ret # NoCall =>
    /\ pools = <<>> => top.ret = Err("PoolNotFound")
    /\ pools # <<>> => top.ret.tag # "PoolNotFound"

\* a query right after clear emptied a filled cache
C22_Witness ==
  /\ top.fn = "get_best_quote"
  /\ op.fn = "clear"
  /\ op.before # <<>>
  /\ cache = <<>>
  /\ pools = <<>>
  /\ prev_top.fn = "get_top_quotes"
  /\ IsOk(prev_top.ret)
  /\ top.ret = Err("PoolNotFound")

\* ---------------------------------------------------- descriptor invariants
\* C23: after any sequence of bulk fetch, import and clear every cached
\* descriptor has two different tokens and a fee below 10000 basis points, and
\* is stored under its own address.
C23_DescriptorInvariants ==
  \A a \in DOMAIN cache :
    /\ cache[a].token0 # cache[a].token1
    /\ 0 <= cache[a].fee_bps /\ cache[a].fee_bps < 10000
    /\ cache[a].address = a

\* ---------------------------------------------------------------- route cost
\* the quotes of the last call of find_best_route: one for each route that
\* quoted
RouteQuotes == IF IsOk(rq.quotes) THEN rq.quotes.val ELSE <<>>

\* C24: every RouteQuote has a gas estimate of 100000 per hop and a price
\* impact of 10 basis points per hop, so of two quotes of one call the one
\* with more hops has the strictly larger gas estimate and a price impact
\* that is not smaller, whatever the reserves of the pools.
C24_CostGrowsWithLength ==
  /\ \A i \in DOMAIN RouteQuotes :
       /\ RouteQuotes[i].gas_estimate = 100000 * Len(RouteQuotes[i].hops)
       /\ RouteQuotes[i].price_impact_bps = 10 * Len(RouteQuotes[i].hops)
  /\ IsOk(rq.ret) =>
       /\ rq.ret.val.gas_estimate = 100000 * Len(rq.ret.val.hops)
       /\ rq.ret.val.price_impact_bps = 10 * Len(rq.ret.val.hops)
  /\ \A i, j \in DOMAIN RouteQuotes :
       Len(RouteQuotes[i].hops) < Len(RouteQuotes[j].hops) =>
         /\ RouteQuotes[i].gas_estimate < RouteQuotes[j].gas_estimate
         /\ RouteQuotes[i].price_impact_bps <= RouteQuotes[j].price_impact_bps

\* a direct route and a route of two hops are quoted in one call, and the
\* longer one gives the larger output
C24_Witness ==
  /\ Len(RouteQuotes) = 2
  /\ Len(RouteQuotes[1].hops) = 1
  /\ Len(RouteQuotes[2].hops) = 2
  /\ RouteQuotes[2].amount_out > RouteQuotes[1].amount_out
  /\ IsOk(rq.ret)

\* --------------------------------------------------------------- zero amount
\* C25: a quote query with amount_in = 0 fails with InvalidAmount: a call of
\* find_best_route with a zero amount over pools that hold a route between
\* the two tokens returns the InvalidAmount error.
C25_ZeroAmountSurfaces ==
  (rq.ret # NoCall /\ rq.amount_in = 0 /\ rq.routes # <<>>) =>
    rq.ret = Err("InvalidAmount")

\* ------------------------------------------------- failing imports and exports
\* the file of the last import or construction cannot be read or parsed
ImportFails(file) == ~file.exists \/ ~op.access \/ ~ParsesAll(file)

\* C26: an import whose file cannot be read or whose document does not parse
\* returns CacheError and leaves the cache as it was before the call; an export
\* leaves the cache as it was, and returns CacheError when it fails; and
\* Aggregator::new with a usable node address returns an aggregator whose
\* cache is empty when the import of the file at the configured path fails.
C26_FailAtomically ==
  /\ (op.fn = "import_from_file" /\ ImportFails(disk)) =>
       op.ret = Err("CacheError") /\ cache = op.before
  /\ op.fn = "export_to_file" =>
       /\ cache = op.before
       /\ ~op.access => op.ret = Err("CacheError")
  /\ (op.fn = "new" /\ cfg.rpc_url \in ParsableUrls
        /\ ImportFails(FileAt(cfg.cache_path))) =>
       IsOk(op.ret) /\ cache = <<>>

\* an import of a readable document whose second entry is cut short has
\* failed on a cache that held a descriptor and not the one of the first entry
C26_Witness ==
  /\ op.fn = "import_from_file"
  /\ op.access
  /\ disk = TornFile
  /\ op.before # <<>>
  /\ deserialize(disk.pools[1]).address \notin DOMAIN op.before
  /\ op.ret = Err("CacheError")

\* ------------------------------------------------ price impact and the amount
\* what calculate_pool_output reports for a recorded quote: the pool has the
\* reserves of `pair` and the fee of the quote, and token 1 goes in
PairPool(fee_bps) ==
  [address |-> 1, token0 |-> 1, token1 |-> 2, reserve0 |-> pair.reserve_in,
   reserve1 |-> pair.reserve_out, fee_bps |-> fee_bps]
Reported(c) == calculate_pool_output(PairPool(c.fee_bps), 1, c.amount_in)
ImpactOf(c) == Reported(c).val.price_impact_bps

\* two quotes against the same reserves at the same fee have both succeeded,
\* the earlier one for the smaller amount
SmallerThenLarger ==
  /\ IsOk(prev_call.ret) /\ IsOk(call.ret)
  /\ IsOk(Reported(prev_call)) /\ IsOk(Reported(call))
  /\ prev_call.fee_bps = call.fee_bps
  /\ prev_call.amount_in < call.amount_in

\* the basis points that one unit of output is worth at the smaller amount
OutputUnit == (10000 * pair.reserve_in) \div (prev_call.amount_in * pair.reserve_out)

WideProduct(a, b) ==
  LET ah == a \div Limb
      al == a % Limb
      bh == b \div Limb
      bl == b % Limb
      low == al * bl
      mid == ah * bl + al * bh + low \div Limb
  IN <<ah * bh + mid \div Limb, mid % Limb, low % Limb>>

\* p < q, for two products in limbs
WideLess(p, q) ==
  \/ p[1] < q[1]
  \/ p[1] = q[1] /\ p[2] < q[2]
  \/ p[1] = q[1] /\ p[2] = q[2] /\ p[3] < q[3]

\* C28: for every successful calculate_uniswap_v2_output with fee_bps < 10000,
\* (reserve_in + amount_in) * (reserve_out - amount_out) is at least
\* reserve_in * reserve_out, and amount_out * reserve_in is below
\* amount_in * reserve_out.
C28_ProductNeverDecreases ==
  (IsOk(call.ret) /\ call.fee_bps < FeeBase) =>
    /\ ~WideLess(WideProduct(pair.reserve_in + call.amount_in,
                             pair.reserve_out - call.ret.val),
                 WideProduct(pair.reserve_in, pair.reserve_out))
    /\ WideLess(WideProduct(call.ret.val, pair.reserve_in),
                WideProduct(call.amount_in, pair.reserve_out))

\* a swap without a fee has left the reserve product exactly as it was, after
\* a swap of the same amount at a fee
C28_Witness ==
  /\ IsOk(call.ret) /\ call.fee_bps = 0
  /\ WideProduct(pair.reserve_in + call.amount_in,
                 pair.reserve_out - call.ret.val)
       = WideProduct(pair.reserve_in, pair.reserve_out)
  /\ IsOk(prev_call.ret) /\ prev_call.fee_bps > 0
  /\ prev_call.amount_in = call.amount_in

\* ------------------------------------------------------ the search terminates
\* C29: for every pool list and every max_hops, a route search that has begun
\* leads to a state where the queue of bfs_routes is empty and find_best_route
\* has returned.
C29_SearchTerminates ==
  (bfs.phase = "search") ~>
    (bfs.phase = "done" /\ bfs.queue = <<>>)

\* the routes the passes have found are the routes of find_all_routes
SearchAgrees ==
  bfs.phase = "done" =>
    bfs.routes = find_all_routes(router, pools, bfs.token_in, bfs.token_out)

\* a search over the triangle and a pool of a token with itself, with the
\* largest max_hops, has returned with a direct route and a longer one
C29_Witness ==
  /\ bfs.phase = "done"
  /\ Len(bfs.routes) > 1
  /\ Len(pools) > Len(TrianglePairs)
  /\ \E i \in DOMAIN pools : pools[i].token0 = pools[i].token1
  /\ router.max_hops = MaxHopsCap

\* ------------------------------------------------------ from run to run
\* an aggregator has been built, with a readable file system, right after a
\* fetch-pools command that succeeded
BuiltAfterFetch == op.fn = "new" /\ IsOk(op.ret) /\ op.access

\* C30: an aggregator built after a successful fetch-pools command, with the
\* same configuration and whatever the configured cache path, holds every pool
\* that the fetch returned.
C30_FetchedPoolsSurvive ==
  BuiltAfterFetch =>
    \A i \in DOMAIN op.fetched :
      /\ op.fetched[i].address \in DOMAIN cache
      /\ cache[op.fetched[i].address] = op.fetched[i]

\* the same, for a configuration that leaves the cache path at its default
FetchedPoolsSurviveAtDefault ==
  (BuiltAfterFetch /\ cfg.cache_path = DefaultCachePath) =>
    \A i \in DOMAIN op.fetched :
      /\ op.fetched[i].address \in DOMAIN cache
      /\ cache[op.fetched[i].address] = op.fetched[i]

====
